---- MODULE Spec2Model ----
(***************************************************************************)
(* Model of the media-archive sync scripts:                                *)
(*   scripts/trakt_sync.py   Trakt history -> watched_movies.yml /         *)
(*                           watched_episodes.yml, cursor, token rotation  *)
(*   scripts/lastfm_sync.py  Last.fm scrobbles -> monthly YAML files       *)
(*                                                                         *)
(* Data representation.                                                    *)
(*   A Python dict is a function whose domain is the set of keys that hold *)
(*   a value other than None; d.get(k) is Opt(d, k), which is <<>> for     *)
(*   None and <<v>> for a value v.  A key holding None and a missing key   *)
(*   are the same thing for every read the scripts make (.get, "or",       *)
(*   "is not None"), and the frontend mappers filter None values out.      *)
(*   An ISO timestamp "YYYY-MM-DDTHH:MM:SSZ" is <<day, sec>>; the date     *)
(*   string "YYYY-MM-DD" is <<day>>.  Lexicographic order on these tuples  *)
(*   is the string order of the texts.                                     *)
(*   The value under key "tmdb" of a movie is tagged by its Python type:   *)
(*   [dict |-> d] for the enrichment mapping, [num |-> n] for the number   *)
(*   the frontend record stores (an int has no .get).                      *)
(***************************************************************************)
EXTENDS Integers, Sequences, FiniteSets, TLC

\* ---------------------------------------------------------------------
\* Bounds of the model
\* ---------------------------------------------------------------------
\* seconds in a day (a day of the model has SecsPerDay instants)
SecsPerDay == 2
\* longest existing log drawn for the merge functions
MaxLog == 2
\* longest batch of new items drawn for the merge functions
MaxBatch == 2
\* number of runs of trakt_sync.py in one behaviour
MaxRuns == 2
\* number of token pairs the token endpoint issues in one behaviour
MaxIssued == 2

\* ---------------------------------------------------------------------
\* Configuration of a trakt run (environment variables, scaled down)
\* ---------------------------------------------------------------------
\* TRAKT_HISTORY_LIMIT
HistoryLimit == 1
\* TRAKT_HISTORY_PAGES
HistoryPages == 2

\* ---------------------------------------------------------------------
\* dict helpers
\* ---------------------------------------------------------------------
Has(d, k) == k \in DOMAIN d

\* d.get(k): <<>> is None
Opt(d, k) == IF k \in DOMAIN d THEN <<d[k]>> ELSE <<>>

\* the empty dict {}
EmptyDict == [k \in {} |-> 0]

\* d.get(k, {}) or {}  for a nested mapping
Sub(d, k) == IF k \in DOMAIN d THEN d[k] ELSE EmptyDict

\* a dict literal given as key -> optional value; keys holding None are left out
Dict(p) == [k \in {y \in DOMAIN p : p[y] # <<>>} |-> p[k][1]]

\* a or b  on optional values (the values of the model are all truthy)
OrElse(a, b) == IF a # <<>> THEN a ELSE b

\* all sequences over S of length at most n
SeqUpTo(S, n) == UNION {[1..m -> S] : m \in 0..n}

\* ---------------------------------------------------------------------
\* trakt_sync.py: utils
\* ---------------------------------------------------------------------
\* only_date: the text before the first "T"
only_date(iso_ts) ==
    IF iso_ts = <<>> THEN <<>> ELSE << <<iso_ts[1][1]>> >>

\* string comparison a > b of two timestamps
IsoGreater(a, b) ==
    \/ a[1] > b[1]
    \/ a[1] = b[1] /\ Len(a) > 1 /\ (Len(b) = 1 \/ a[2] > b[2])

\* parse_iso(s) - timedelta(seconds=1), written back with isoformat()
MinusOneSecond(ts) ==
    LET sec == IF Len(ts) > 1 THEN ts[2] ELSE 0
    IN  IF sec > 0 THEN <<ts[1], sec - 1>> ELSE <<ts[1] - 1, SecsPerDay - 1>>

\* A log file is [doc, items]: doc says what the text of the file is, a YAML
\* list ("list", with its items), no file at all ("missing"), text that is
\* not YAML ("unparseable"), an empty or null document ("null"), or a
\* non-empty mapping, string or number ("mapping", "string", "number").
\* A Python value is [type, items]: a list with its items, or a value of
\* another type.
ListFile(items) == [doc |-> "list", items |-> items]
PyList(items) == [type |-> "list", items |-> items]

\* yaml_load: [] for a missing file and for a file safe_load raises on;
\* otherwise "yaml.safe_load(...) or []", which is the parsed value itself
\* unless that value is falsy
yaml_load(file) ==
    IF file.doc \in {"missing", "unparseable", "null"} THEN PyList(<<>>)
    ELSE IF file.doc = "list" THEN PyList(file.items)
    ELSE [type |-> file.doc, items |-> <<>>]

\* the larger of two optional timestamps (max_dt in latest_watched_iso_from_yaml)
LaterOf(a, b) ==
    IF a = <<>> THEN b
    ELSE IF b = <<>> THEN a
    ELSE IF IsoGreater(b[1], a[1]) THEN b ELSE a

\* w_iso of a row: a date-only text gets "T00:00:00Z" appended
RowWatchedIso(row) ==
    LET w == OrElse(Opt(row, "watched_on"), Opt(row, "watched_at"))
    IN  IF w # <<>> /\ Len(w[1]) = 1 THEN << <<w[1][1], 0>> >> ELSE w

latest_watched_iso_from_yaml(movies, episodes) ==
    LET rows == yaml_load(ListFile(movies)).items \o yaml_load(ListFile(episodes)).items
        mx[n \in 0..Len(rows)] ==
            IF n = 0 THEN <<>> ELSE LaterOf(mx[n - 1], RowWatchedIso(rows[n]))
    IN  mx[Len(rows)]

\* read_cursor_env_or_file() or latest_watched_iso_from_yaml()
determine_start_at(env, cursor, movies, episodes) ==
    OrElse(OrElse(env, cursor), latest_watched_iso_from_yaml(movies, episodes))

\* lexicographic a > b on tuples of numbers of equal length (Python tuple order)
RECURSIVE TupleGreater(_, _)
TupleGreater(a, b) ==
    IF a = <<>> THEN FALSE
    ELSE IF a[1] # b[1] THEN a[1] > b[1]
    ELSE TupleGreater(Tail(a), Tail(b))

\* no sort: the list in the order it has
SortDesc_unsorted(seq, keys) == seq

\* list.sort(key=..., reverse=True): descending and stable; keys[i] is the key of seq[i]
RECURSIVE SortDesc(_, _)
SortDesc(seq, keys) ==
    IF seq = <<>> THEN <<>>
    ELSE LET first == CHOOSE i \in 1..Len(seq) :
                         /\ \A j \in 1..Len(seq) : ~TupleGreater(keys[j], keys[i])
                         /\ \A j \in 1..(i - 1) : TupleGreater(keys[i], keys[j])
             Drop(q) == [n \in 1..(Len(q) - 1) |-> IF n < first THEN q[n] ELSE q[n + 1]]
         IN  <<seq[first]>> \o SortDesc(Drop(seq), Drop(keys))

\* r.get("watched_on") or "": the empty text sorts before every date
DateKey(r) == IF Has(r, "watched_on") THEN r.watched_on[1] ELSE -1

\* key=lambda r: (r.get("watched_on") or "")
MovieSortKey(r) == <<DateKey(r)>>

\* key=lambda r: (r.get("watched_on") or "", r.get("season") or 0, r.get("episode") or 0)
EpisodeSortKey(r) ==
    <<DateKey(r),
      IF Has(r, "season") THEN r.season ELSE 0,
      IF Has(r, "episode") THEN r.episode ELSE 0>>

\* ---------------------------------------------------------------------
\* trakt_sync.py: normalization
\* ---------------------------------------------------------------------
normalize_movie_item(item) ==
    IF Opt(item, "type") # <<"movie">> \/ ~Has(item, "movie")
    THEN <<>>
    ELSE LET m == item.movie
         IN  << Dict([type       |-> <<"movie">>,
                      history_id |-> Opt(item, "id"),
                      title      |-> Opt(m, "title"),
                      year       |-> Opt(m, "year"),
                      ids        |-> <<Sub(m, "ids")>>,
                      watched_on |-> Opt(item, "watched_at"),
                      action     |-> Opt(item, "action")]) >>

normalize_episode_item(item) ==
    IF Opt(item, "type") # <<"episode">> \/ ~Has(item, "episode")
    THEN <<>>
    ELSE LET e == item.episode
             s == Sub(item, "show")
         IN  << Dict([type       |-> <<"episode">>,
                      history_id |-> Opt(item, "id"),
                      show       |-> Opt(s, "title"),
                      year       |-> Opt(s, "year"),
                      ids        |-> << [show |-> Sub(s, "ids"), episode |-> Sub(e, "ids")] >>,
                      season     |-> Opt(e, "season"),
                      episode    |-> Opt(e, "number"),
                      title      |-> Opt(e, "title"),
                      watched_on |-> Opt(item, "watched_at"),
                      action     |-> Opt(item, "action")]) >>

\* ---------------------------------------------------------------------
\* trakt_sync.py: identity keys
\* A Python tuple is a TLA+ tuple; the bare number movie_key returns for
\* ids.trakt is the 1-tuple <<n>>, which equals no tagged tuple.
\* ---------------------------------------------------------------------
movie_key(r) ==
    IF Has(r, "history_id")
    THEN <<"hist", r.history_id>>
    ELSE LET ids == Sub(r, "ids")
         IN  IF Has(ids, "trakt")
             THEN <<ids.trakt>>
             ELSE <<"movie-fallback", Opt(r, "title"), Opt(r, "year"), Opt(r, "watched_on")>>

episode_key(r) ==
    IF Has(r, "history_id")
    THEN <<"hist", r.history_id>>
    ELSE LET ids == Sub(Sub(r, "ids"), "episode")
         IN  IF Has(ids, "trakt")
             THEN <<"ep", ids.trakt, Opt(r, "watched_on")>>
             ELSE <<"ep-fallback", Opt(r, "show"), Opt(r, "season"), Opt(r, "episode"),
                    Opt(r, "watched_on")>>

\* calling the key function handed to add_or_update_verbose
CallKey(key_fn, r) ==
    IF key_fn = "movie_key" THEN movie_key(r) ELSE episode_key(r)

\* ---------------------------------------------------------------------
\* trakt_sync.py: merge
\* ---------------------------------------------------------------------
\* the index built with the filter inverted ("if key_fn(r) is None"): no entry
BuildIndex_none(records, key_fn) == EmptyDict

\* index = {key_fn(r): i for i, r in enumerate(records)}: a later record
\* with the same key replaces the earlier entry
BuildIndex(records, key_fn) ==
    [k \in {CallKey(key_fn, records[i]) : i \in 1..Len(records)} |->
        CHOOSE i \in 1..Len(records) :
            /\ CallKey(key_fn, records[i]) = k
            /\ \A j \in 1..Len(records) : CallKey(key_fn, records[j]) = k => j <= i]

\* the pass that appends without entering the key into the index
MergeStep_unindexed(p, it, key_fn) ==
    LET k == CallKey(key_fn, it)
    IN  IF k \in DOMAIN p.index
        THEN [p EXCEPT !.records[p.index[k]] = it, !.upd_count = @ + 1]
        ELSE [p EXCEPT !.records = Append(@, it), !.new_count = @ + 1]

\* one pass of the loop "for it in new_items"
MergeStep(p, it, key_fn) ==
    LET k == CallKey(key_fn, it)
    IN  IF k \in DOMAIN p.index
        THEN [p EXCEPT !.records[p.index[k]] = it, !.upd_count = @ + 1]
        ELSE [records   |-> Append(p.records, it),
              index     |-> [x \in DOMAIN p.index \cup {k} |->
                                IF x = k THEN Len(p.records) + 1 ELSE p.index[x]],
              new_count |-> p.new_count + 1,
              upd_count |-> p.upd_count]

\* returns [records, new_count, upd_count] (and the index, which the caller drops)
add_or_update_verbose(records, new_items, key_fn) ==
    LET st[n \in 0..Len(new_items)] ==
            IF n = 0
            THEN [records |-> records, index |-> BuildIndex(records, key_fn),
                  new_count |-> 0, upd_count |-> 0]
            ELSE MergeStep(st[n - 1], new_items[n], key_fn)
    IN  st[Len(new_items)]

\* ---------------------------------------------------------------------
\* lastfm_sync.py: merge
\* ---------------------------------------------------------------------
\* load_yaml: as yaml_load of trakt_sync.py ("return data or []")
load_yaml(file) ==
    IF file.doc \in {"missing", "unparseable", "null"} THEN PyList(<<>>)
    ELSE IF file.doc = "list" THEN PyList(file.items)
    ELSE [type |-> file.doc, items |-> <<>>]

\* the key k(e) of dedupe_merge
ScrobbleKey(e) ==
    <<Opt(e, "played_at_utc"), Opt(e, "artist"), Opt(e, "track"), Opt(e, "album")>>

dedupe_merge(existing, new_items) ==
    LET st[n \in 0..Len(new_items)] ==
            IF n = 0
            THEN [merged |-> existing,
                  seen   |-> {ScrobbleKey(existing[i]) : i \in 1..Len(existing)}]
            ELSE LET p == st[n - 1]
                     e == new_items[n]
                 IN  IF ScrobbleKey(e) \notin p.seen
                     THEN [merged |-> Append(p.merged, e),
                           seen   |-> p.seen \cup {ScrobbleKey(e)}]
                     ELSE p
    IN  st[Len(new_items)].merged

\* ---------------------------------------------------------------------
\* trakt_sync.py: frontend format
\* ---------------------------------------------------------------------
\* f"{IMG_BASE}/{variant}{path}"
img_or_none(path, variant) ==
    IF path = <<>> THEN <<>> ELSE << <<variant, path[1]>> >>

\* a number stored under the movie key "tmdb"
TagNum(o) == IF o = <<>> THEN <<>> ELSE << [num |-> o[1]] >>

\* movie_to_frontend raises AttributeError when m["tmdb"] is a number:
\* tmdb = m.get("tmdb") or {} is then an int and tmdb.get(...) fails
movie_to_frontend_raises(m) == Has(m, "tmdb") /\ Has(m.tmdb, "num")

movie_to_frontend(m) ==
    LET ids  == Sub(m, "ids")
        tmdb == IF Has(m, "tmdb") /\ Has(m.tmdb, "dict") THEN m.tmdb.dict ELSE EmptyDict
    IN  Dict([title       |-> Opt(m, "title"),
              year        |-> Opt(m, "year"),
              imdb        |-> Opt(ids, "imdb"),
              tmdb        |-> TagNum(OrElse(Opt(ids, "tmdb"), Opt(tmdb, "id"))),
              trakt       |-> Opt(ids, "trakt"),
              slug        |-> Opt(ids, "slug"),
              plays       |-> <<1>>,
              watched_on  |-> only_date(Opt(m, "watched_on")),
              poster      |-> img_or_none(Opt(tmdb, "poster_path"), "w500"),
              backdrop    |-> img_or_none(Opt(tmdb, "backdrop_path"), "w780"),
              source      |-> <<"trakt">>,
              runtime     |-> Opt(tmdb, "runtime"),
              title_de    |-> OrElse(Opt(tmdb, "title"),
                                     OrElse(Opt(tmdb, "original_title"), Opt(m, "title"))),
              overview_de |-> Opt(tmdb, "overview")])

episode_to_frontend(e) ==
    LET show_ids    == Sub(Sub(e, "ids"), "show")
        tmdb_show   == Sub(e, "tmdb_show")
        tmdb_ep     == Sub(e, "tmdb_episode")
        season_meta == Sub(e, "tmdb_season")
        run_times   == Sub(tmdb_show, "episode_run_time")
        episodes    == Sub(season_meta, "episodes")
    IN  Dict([show                  |-> Opt(e, "show"),
              year                  |-> Opt(e, "year"),
              season                |-> Opt(e, "season"),
              episode               |-> Opt(e, "episode"),
              plays                 |-> <<1>>,
              watched_on            |-> only_date(Opt(e, "watched_on")),
              trakt_show            |-> Opt(show_ids, "trakt"),
              tvdb                  |-> Opt(show_ids, "tvdb"),
              imdb                  |-> Opt(show_ids, "imdb"),
              tmdb                  |-> OrElse(Opt(show_ids, "tmdb"), Opt(tmdb_show, "id")),
              slug                  |-> Opt(show_ids, "slug"),
              source                |-> <<"trakt">>,
              show_title_de         |-> OrElse(Opt(tmdb_show, "name"), Opt(e, "show")),
              show_poster           |-> img_or_none(Opt(tmdb_show, "poster_path"), "w500"),
              show_backdrop         |-> img_or_none(Opt(tmdb_show, "backdrop_path"), "w780"),
              show_total_episodes   |-> Opt(tmdb_show, "number_of_episodes"),
              episode_title         |-> OrElse(Opt(e, "title"), Opt(tmdb_ep, "name")),
              episode_title_de      |-> Opt(tmdb_ep, "name"),
              episode_runtime       |-> OrElse(Opt(tmdb_ep, "runtime"),
                                               IF Len(run_times) > 0
                                               THEN <<run_times[1]>> ELSE <<>>),
              season_total_episodes |-> IF Len(episodes) > 0
                                        THEN <<Len(episodes)>> ELSE <<>>,
              episode_still         |-> img_or_none(Opt(tmdb_ep, "still_path"), "w300")])

\* ---------------------------------------------------------------------
\* trakt_sync.py: TMDB lookups
\* A request is its path with the parameters that select the answer:
\*   <<"movie", id>>  <<"find", imdb_id>>  <<"search/movie", title, year>>
\*   <<"tv", id>>  <<"search/tv", title, year>>
\*   <<"tv/season/episode", id, season, number>>  <<"tv/season", id, season>>
\* The catalog cat is the set of requests TMDB answers with status 200;
\* every other request yields None (non-200 answer or RequestException).
\* ---------------------------------------------------------------------
\* the id the catalog resolves every find and search request to
TmdbMovieId == 603
TmdbShowId == 1399

\* the JSON body of a 200 answer
TmdbData(path) ==
    CASE path[1] = "movie" ->
            [id |-> path[2], title |-> "A-de", original_title |-> "A",
             overview |-> "ov", poster_path |-> "/p", backdrop_path |-> "/b",
             release_date |-> <<1>>, genres |-> <<[name |-> "g"]>>,
             vote_average |-> 7, runtime |-> 100,
             external_ids |-> [imdb_id |-> "tt1"]]
      [] path[1] = "find" -> [movie_results |-> <<[id |-> TmdbMovieId]>>]
      [] path[1] = "search/movie" -> [results |-> <<[id |-> TmdbMovieId]>>]
      [] path[1] = "search/tv" -> [results |-> <<[id |-> TmdbShowId]>>]
      [] path[1] = "tv" ->
            [id |-> path[2], name |-> "X-de", poster_path |-> "/sp",
             backdrop_path |-> "/sb", number_of_episodes |-> 10,
             episode_run_time |-> <<45>>]
      [] path[1] = "tv/season/episode" ->
            [name |-> "E-de", runtime |-> 50, still_path |-> "/st"]
      [] path[1] = "tv/season" ->
            [episodes |-> <<[episode_number |-> 1], [episode_number |-> 2]>>]

tmdb_get(cat, path) == IF path \in cat THEN <<TmdbData(path)>> ELSE <<>>

\* det of a search or find hit: results[0]["id"] looked up as detail
FirstHitDetail(cat, sr, list_key, kind) ==
    IF sr # <<>> /\ Len(Sub(sr[1], list_key)) > 0
    THEN tmdb_get(cat, <<kind, sr[1][list_key][1].id>>)
    ELSE <<>>

\* returns the movie detail as an optional value (<<>> is the empty dict)
enrich_movie_by_tmdb_ids(cat, tmdb_id, imdb_id, title, year) ==
    LET byId   == IF tmdb_id # <<>> THEN tmdb_get(cat, <<"movie", tmdb_id[1]>>) ELSE <<>>
        byImdb == IF byId = <<>> /\ imdb_id # <<>>
                  THEN FirstHitDetail(cat, tmdb_get(cat, <<"find", imdb_id[1]>>),
                                      "movie_results", "movie")
                  ELSE <<>>
        movie2 == OrElse(byId, byImdb)
        bySrch == IF movie2 = <<>>
                  THEN FirstHitDetail(cat, tmdb_get(cat, <<"search/movie", title, year>>),
                                      "results", "movie")
                  ELSE <<>>
    IN  OrElse(movie2, bySrch)

enrich_show(cat, show_tmdb_id, title, year) ==
    LET byId   == IF show_tmdb_id # <<>> THEN tmdb_get(cat, <<"tv", show_tmdb_id[1]>>) ELSE <<>>
        bySrch == IF byId = <<>> /\ title # <<>>
                  THEN FirstHitDetail(cat, tmdb_get(cat, <<"search/tv", title, year>>),
                                      "results", "tv")
                  ELSE <<>>
    IN  OrElse(byId, bySrch)

enrich_episode(cat, show_tmdb_id, season, number) ==
    IF show_tmdb_id = <<>> \/ season = <<>> \/ number = <<>>
    THEN <<>>
    ELSE tmdb_get(cat, <<"tv/season/episode", show_tmdb_id[1], season[1], number[1]>>)

enrich_season_meta(cat, show_tmdb_id, season) ==
    IF show_tmdb_id = <<>> \/ season = <<>>
    THEN <<>>
    ELSE tmdb_get(cat, <<"tv/season", show_tmdb_id[1], season[1]>>)

\* the loop body that keeps of an item only what identifies it
EnrichMovieItem_bare(cat, m) ==
    [k \in DOMAIN m \cap {"type", "history_id", "ids"} |-> m[k]]

\* main, body of the loop "for m in movies_raw"
EnrichMovieItem(cat, m) ==
    LET ids  == Sub(m, "ids")
        info == enrich_movie_by_tmdb_ids(cat, Opt(ids, "tmdb"), Opt(ids, "imdb"),
                                         Opt(m, "title"), Opt(m, "year"))
    IN  IF info = <<>>
        THEN m
        ELSE LET i == info[1]
                 d == Dict([id             |-> Opt(i, "id"),
                            title          |-> OrElse(Opt(i, "title"), Opt(i, "original_title")),
                            original_title |-> Opt(i, "original_title"),
                            overview       |-> Opt(i, "overview"),
                            poster_path    |-> Opt(i, "poster_path"),
                            backdrop_path  |-> Opt(i, "backdrop_path"),
                            release_date   |-> Opt(i, "release_date"),
                            genres         |-> << [n \in 1..Len(Sub(i, "genres")) |->
                                                      i.genres[n].name] >>,
                            vote_average   |-> Opt(i, "vote_average"),
                            runtime        |-> Opt(i, "runtime"),
                            external_ids   |-> <<Sub(i, "external_ids")>>])
             IN  [k \in DOMAIN m \cup {"tmdb"} |-> IF k = "tmdb" THEN [dict |-> d] ELSE m[k]]

\* e[key] = value when value is a non-empty answer
SetIf(e, key, value) ==
    IF value = <<>> THEN e
    ELSE [k \in DOMAIN e \cup {key} |-> IF k = key THEN value[1] ELSE e[k]]

\* main, body of the loop "for e in episodes_raw"
EnrichEpisodeItem(cat, e) ==
    LET show_ids == Sub(Sub(e, "ids"), "show")
        show_det == enrich_show(cat, Opt(show_ids, "tmdb"), Opt(e, "show"), Opt(e, "year"))
        show_id  == IF show_det # <<>> THEN Opt(show_det[1], "id") ELSE Opt(show_ids, "tmdb")
        ep_det   == enrich_episode(cat, show_id, Opt(e, "season"), Opt(e, "episode"))
        season   == enrich_season_meta(cat, show_id, Opt(e, "season"))
    IN  SetIf(SetIf(SetIf(e, "tmdb_show", show_det), "tmdb_episode", ep_det),
              "tmdb_season", season)

\* [f(x) for x in seq]
MapMovieEnrich(cat, seq) == [i \in 1..Len(seq) |-> EnrichMovieItem(cat, seq[i])]
MapEpisodeEnrich(cat, seq) == [i \in 1..Len(seq) |-> EnrichEpisodeItem(cat, seq[i])]

\* ---------------------------------------------------------------------
\* trakt_sync.py: the requests the TMDB lookups send (every call of
\* tmdb_get is one request; there is no cache)
\* ---------------------------------------------------------------------
\* the detail request that follows a search or find hit
HitRequests(sr, list_key, kind) ==
    IF sr # <<>> /\ Len(Sub(sr[1], list_key)) > 0
    THEN << <<kind, sr[1][list_key][1].id>> >>
    ELSE <<>>

\* the calls of tmdb_get made by enrich_movie_by_tmdb_ids
MovieRequests(cat, tmdb_id, imdb_id, title, year) ==
    LET byId   == IF tmdb_id # <<>> THEN tmdb_get(cat, <<"movie", tmdb_id[1]>>) ELSE <<>>
        find   == <<"find", imdb_id[1]>>
        byImdb == IF byId = <<>> /\ imdb_id # <<>>
                  THEN FirstHitDetail(cat, tmdb_get(cat, find), "movie_results", "movie")
                  ELSE <<>>
        search == <<"search/movie", title, year>>
    IN  (IF tmdb_id # <<>> THEN << <<"movie", tmdb_id[1]>> >> ELSE <<>>)
        \o (IF byId = <<>> /\ imdb_id # <<>>
            THEN <<find>> \o HitRequests(tmdb_get(cat, find), "movie_results", "movie")
            ELSE <<>>)
        \o (IF OrElse(byId, byImdb) = <<>>
            THEN <<search>> \o HitRequests(tmdb_get(cat, search), "results", "movie")
            ELSE <<>>)

\* the calls of tmdb_get made by enrich_show
ShowRequests(cat, show_tmdb_id, title, year) ==
    LET byId   == IF show_tmdb_id # <<>> THEN tmdb_get(cat, <<"tv", show_tmdb_id[1]>>) ELSE <<>>
        search == <<"search/tv", title, year>>
    IN  (IF show_tmdb_id # <<>> THEN << <<"tv", show_tmdb_id[1]>> >> ELSE <<>>)
        \o (IF byId = <<>> /\ title # <<>>
            THEN <<search>> \o HitRequests(tmdb_get(cat, search), "results", "tv")
            ELSE <<>>)

\* the calls of tmdb_get made by enrich_episode and enrich_season_meta
EpisodeRequests(show_tmdb_id, season, number) ==
    IF show_tmdb_id = <<>> \/ season = <<>> \/ number = <<>>
    THEN <<>>
    ELSE << <<"tv/season/episode", show_tmdb_id[1], season[1], number[1]>> >>

SeasonRequests(show_tmdb_id, season) ==
    IF show_tmdb_id = <<>> \/ season = <<>>
    THEN <<>>
    ELSE << <<"tv/season", show_tmdb_id[1], season[1]>> >>

\* the requests of one pass of the loop "for m in movies_raw"
MovieItemRequests(cat, m) ==
    LET ids == Sub(m, "ids")
    IN  MovieRequests(cat, Opt(ids, "tmdb"), Opt(ids, "imdb"), Opt(m, "title"), Opt(m, "year"))

\* the requests of one pass of the loop "for e in episodes_raw"
EpisodeItemRequests(cat, e) ==
    LET show_ids == Sub(Sub(e, "ids"), "show")
        show_det == enrich_show(cat, Opt(show_ids, "tmdb"), Opt(e, "show"), Opt(e, "year"))
        show_id  == IF show_det # <<>> THEN Opt(show_det[1], "id") ELSE Opt(show_ids, "tmdb")
    IN  ShowRequests(cat, Opt(show_ids, "tmdb"), Opt(e, "show"), Opt(e, "year"))
        \o EpisodeRequests(show_id, Opt(e, "season"), Opt(e, "episode"))
        \o SeasonRequests(show_id, Opt(e, "season"))

\* the requests of both enrichment loops of main, in the order they are sent
EnrichRequests(cat, movies, episodes) ==
    LET all[n \in 0..(Len(movies) + Len(episodes))] ==
            IF n = 0 THEN <<>>
            ELSE all[n - 1] \o (IF n <= Len(movies)
                                THEN MovieItemRequests(cat, movies[n])
                                ELSE EpisodeItemRequests(cat, episodes[n - Len(movies)]))
    IN  all[Len(movies) + Len(episodes)]

\* ---------------------------------------------------------------------
\* State
\* ---------------------------------------------------------------------
VARIABLES
    \* --- the activity service and the environment of a trakt run ---
    universe,       \* every watch the user will ever record, oldest first
    remoteN,        \* how many of them the remote history holds so far
    remoteGrew,     \* whether a watch was added after the first run began
    envStartAt,     \* TRAKT_START_AT_ISO, <<>> when unset
    catalog,        \* the requests TMDB answers during the current run
    tmdb_requests,  \* the requests the current run has sent to TMDB, in order
    issued,         \* number of token pairs the token endpoint has issued
    \* --- persisted files ---
    moviesFile,     \* watched_movies.yml
    episodesFile,   \* watched_episodes.yml
    cursorFile,     \* .trakt_cursor, <<>> when missing
    tokensFile,     \* .trakt_tokens.json, <<>> when missing
    \* --- process state of trakt_sync.py ---
    tokens,         \* TRAKT_ACCESS_TOKEN / TRAKT_REFRESH_TOKEN / SESSION Authorization
    pc,             \* position of the run in main
    exit,           \* how the last run ended: "none", "ok", 1, 2 as "1"/"2", "killed"
    get,            \* the trakt_get call in progress
    start_at,       \* main: start_at
    page,           \* fetch_trakt_history: page
    history,        \* fetch_trakt_history: collected
    movies_raw,     \* main: movies_raw (the enrichment updates its items in place)
    episodes_raw,   \* main: episodes_raw
    legacy_movies,  \* main: legacy_movies
    legacy_eps,     \* main: legacy_eps
    \* --- bookkeeping for the properties ---
    runs,           \* number of runs started
    pre,            \* the persisted files as they were when the run started, the
                    \* refresh token the run started with, and the pairs issued until then
    lastFetch,      \* what the last completed fetch asked for and whether the cap ended it
    endedAt,        \* the position at which the last run ended
    clean,          \* whether every run so far ended in success
    \* --- inputs and results of the merge functions ---
    mKind,          \* which merge function is applied
    mL,             \* the existing log
    mB,             \* the batch of new items
    mOut,           \* the results of the successive merges of mB
    \* --- process state of lastfm_sync.py ---
    retries,            \* the req_with_retries call in progress
    lastfm,         \* the month files and the incremental run of lastfm_sync.py
    \* --- process state of enrich_posters.py ---
    posters         \* position, lists (and the lists as loaded), caches and
                    \* requests of a run of its main

remoteVars == <<universe, remoteN, remoteGrew, envStartAt, catalog, tmdb_requests, issued>>
fileVars   == <<moviesFile, episodesFile, cursorFile, tokensFile>>
procVars   == <<tokens, pc, exit, get, start_at, page, history, movies_raw,
                episodes_raw, legacy_movies, legacy_eps>>
ghostVars  == <<runs, pre, lastFetch, endedAt, clean>>
mergeVars  == <<mKind, mL, mB, mOut, retries, lastfm>>
vars == <<remoteVars, fileVars, procVars, ghostVars, mergeVars, posters>>

\* lastfm_sync.py has not been started and there is no month file
IdleLastfm == [pc |-> "idle", files |-> <<>>, from_uts |-> <<>>, buckets |-> <<>>,
               requests |-> <<>>, writes |-> 0, runs |-> 0]

\* no call of req_with_retries is in progress
IdleRetries == [stage |-> "idle", attempt |-> 0, params |-> 0, outcomes |-> <<>>,
            sleeps |-> <<>>, result |-> ""]

\* ---------------------------------------------------------------------
\* Raw events of the activity service (GET /sync/history)
\* ---------------------------------------------------------------------
RawMovie(id, title, ids, at) ==
    Dict([id         |-> id,
          type       |-> <<"movie">>,
          action     |-> <<"watch">>,
          watched_at |-> at,
          movie      |-> <<[title |-> title, year |-> 1999, ids |-> ids]>>])

RawEpisode(id, number, ep_ids, at) ==
    Dict([id         |-> id,
          type       |-> <<"episode">>,
          action     |-> <<"watch">>,
          watched_at |-> at,
          episode    |-> <<Dict([season |-> <<1>>, number |-> <<number>>,
                                 title |-> <<"Ep">>, ids |-> <<ep_ids>>])>>,
          show       |-> <<[title |-> "X", year |-> 2011,
                            ids |-> [trakt |-> 31, slug |-> "x", tmdb |-> TmdbShowId]]>>])

\* ---------------------------------------------------------------------
\* Inputs of the merge functions
\* ---------------------------------------------------------------------
\* the catalogs a run may meet: TMDB down or empty, TMDB answering everything
NoCatalog == {}
FullCatalog ==
    {<<"movie", TmdbMovieId>>, <<"tv", TmdbShowId>>,
     <<"search/movie", <<"A">>, <<1999>>>>, <<"search/movie", <<"B">>, <<1999>>>>,
     <<"search/tv", <<"X">>, <<2011>>>>,
     <<"tv/season", TmdbShowId, 1>>}
    \cup {<<"tv/season/episode", TmdbShowId, 1, n>> : n \in 1..3}
Catalogs == {NoCatalog, FullCatalog}

\* raw movie events: the same watch under two history ids, and watches
\* without history id: at two instants, and without activity-service id and
\* watch time
MergeMovieRaws ==
    {RawMovie(<<1>>, "A", [trakt |-> 11], << <<1, 0>> >>),
     RawMovie(<<2>>, "A", [trakt |-> 11], << <<1, 0>> >>),
     RawMovie(<<>>, "A", [trakt |-> 11], << <<1, 0>> >>),
     RawMovie(<<>>, "A", [trakt |-> 11], << <<1, 1>> >>),
     RawMovie(<<>>, "A", EmptyDict, <<>>)}

MergeEpisodeRaws ==
    {RawEpisode(<<1>>, 2, [trakt |-> 21], << <<1, 0>> >>),
     RawEpisode(<<2>>, 2, [trakt |-> 21], << <<1, 0>> >>),
     RawEpisode(<<>>, 2, [trakt |-> 21], << <<1, 0>> >>),
     RawEpisode(<<>>, 2, [trakt |-> 21], << <<1, 1>> >>),
     RawEpisode(<<>>, 2, EmptyDict, <<>>)}

\* new items as main hands them to the merge: normalized, then enriched
MergeMovieItems ==
    {EnrichMovieItem(c, normalize_movie_item(r)[1]) : r \in MergeMovieRaws, c \in Catalogs}
MergeEpisodeItems ==
    {EnrichEpisodeItem(c, normalize_episode_item(r)[1]) : r \in MergeEpisodeRaws, c \in Catalogs}

\* records of an existing log: what an earlier run wrote for such items
MergeMovieRecords == {movie_to_frontend(m) : m \in MergeMovieItems}
MergeEpisodeRecords == {episode_to_frontend(e) : e \in MergeEpisodeItems}

\* rows of a lastfm month file (fetch_recent builds them, save_yaml stores them as they are)
Scrobble(at, track, album) ==
    Dict([artist |-> <<"Ar">>, track |-> <<track>>, album |-> album,
          played_at_utc |-> <<at>>, source |-> <<"lastfm">>])
MergeScrobbles ==
    {Scrobble(<<1, 0>>, "T1", <<"Al">>), Scrobble(<<1, 0>>, "T1", <<>>),
     Scrobble(<<1, 1>>, "T1", <<"Al">>), Scrobble(<<1, 1>>, "T2", <<"Al">>)}

\* the state of a process that has not started a run
IdleGet == [stage |-> "idle", sent |-> <<>>, answer |-> "", refreshes |-> 0, saves |-> 0,
            presented |-> <<>>]
NoFetch == [start_at |-> <<>>, capped |-> FALSE, fetched |-> 0]
EmptyPre == [movies |-> <<>>, episodes |-> <<>>, cursor |-> <<>>, refresh |-> 0, issued |-> 0]

\* enrich_posters.py has not been started
IdlePosters ==
    [pc |-> "idle", i |-> 0, movies |-> <<>>, episodes |-> <<>>,
     loaded |-> [movies |-> <<>>, episodes |-> <<>>],
     tmdb |-> [down |-> {}, how |-> "404"],
     cache |-> EmptyDict, requests |-> <<>>, out |-> <<>>]

IdleState ==
    /\ universe = <<>> /\ remoteN = 0 /\ remoteGrew = FALSE /\ envStartAt = <<>>
    /\ catalog = {} /\ tmdb_requests = <<>> /\ issued = 0
    /\ moviesFile = <<>> /\ episodesFile = <<>> /\ cursorFile = <<>> /\ tokensFile = <<>>
    /\ tokens = [access |-> 0, refresh |-> 0, session |-> 0]
    /\ pc = "idle" /\ exit = "none" /\ get = IdleGet
    /\ start_at = <<>> /\ page = 0 /\ history = <<>>
    /\ movies_raw = <<>> /\ episodes_raw = <<>>
    /\ legacy_movies = <<>> /\ legacy_eps = <<>>
    /\ runs = 0 /\ pre = EmptyPre /\ lastFetch = NoFetch /\ endedAt = "" /\ clean = TRUE

\* ---------------------------------------------------------------------
\* The merge functions applied to drawn inputs
\* ---------------------------------------------------------------------
InitMerge ==
    /\ IdleState
    /\ mKind \in {"movie_key", "episode_key", "dedupe_merge"}
    /\ mL \in CASE mKind = "movie_key"   -> SeqUpTo(MergeMovieRecords, MaxLog)
                [] mKind = "episode_key" -> SeqUpTo(MergeEpisodeRecords, MaxLog)
                [] OTHER                 -> SeqUpTo(MergeScrobbles, MaxLog)
    /\ mB \in CASE mKind = "movie_key"   -> SeqUpTo(MergeMovieItems, MaxBatch)
                [] mKind = "episode_key" -> SeqUpTo(MergeEpisodeItems, MaxBatch)
                [] OTHER                 -> SeqUpTo(MergeScrobbles, MaxBatch)
    /\ mOut = <<>> /\ retries = IdleRetries /\ lastfm = IdleLastfm
    /\ posters = IdlePosters

\* the log the next merge starts from
MergeBase == IF mOut = <<>> THEN mL ELSE mOut[Len(mOut)].records

\* merged_movies_norm, new_m, upd_m = add_or_update_verbose(..., movie_key, "MOV")
MergeMovies ==
    /\ mKind = "movie_key" /\ Len(mOut) < 2
    /\ LET r == add_or_update_verbose(MergeBase, mB, "movie_key")
       IN  mOut' = Append(mOut, [records |-> r.records, new_count |-> r.new_count,
                                 upd_count |-> r.upd_count])
    /\ UNCHANGED <<remoteVars, fileVars, procVars, ghostVars, mKind, mL, mB, retries, lastfm, posters>>

\* merged_eps_norm, new_e, upd_e = add_or_update_verbose(..., episode_key, "EP ")
MergeEpisodes ==
    /\ mKind = "episode_key" /\ Len(mOut) < 2
    /\ LET r == add_or_update_verbose(MergeBase, mB, "episode_key")
       IN  mOut' = Append(mOut, [records |-> r.records, new_count |-> r.new_count,
                                 upd_count |-> r.upd_count])
    /\ UNCHANGED <<remoteVars, fileVars, procVars, ghostVars, mKind, mL, mB, retries, lastfm, posters>>

\* merged = dedupe_merge(existing, items)
MergeScrobbleRows ==
    /\ mKind = "dedupe_merge" /\ Len(mOut) < 2
    /\ LET r == dedupe_merge(MergeBase, mB)
       IN  mOut' = Append(mOut, [records |-> r, new_count |-> Len(r) - Len(MergeBase),
                                 upd_count |-> 0])
    /\ UNCHANGED <<remoteVars, fileVars, procVars, ghostVars, mKind, mL, mB, retries, lastfm, posters>>

NextMerge == MergeMovies \/ MergeEpisodes \/ MergeScrobbleRows

SpecMerge == InitMerge /\ [][NextMerge]_vars

\* ---------------------------------------------------------------------
\* The loaders and the merge that consumes their result
\* ---------------------------------------------------------------------
\* what a log file may hold when a run loads it
DocKinds == {"missing", "unparseable", "null", "mapping", "string", "number"}
LogFiles(records) ==
    {[doc |-> d, items |-> <<>>] : d \in DocKinds}
        \cup {ListFile(r) : r \in SeqUpTo(records, MaxLog)}

InitLoad ==
    /\ IdleState
    /\ posters = IdlePosters
    /\ mKind \in {"yaml_load", "load_yaml"}
    /\ mL \in IF mKind = "yaml_load" THEN LogFiles(MergeMovieRecords)
               ELSE LogFiles(MergeScrobbles)
    /\ mB \in IF mKind = "yaml_load" THEN SeqUpTo(MergeMovieItems, MaxBatch)
               ELSE SeqUpTo(MergeScrobbles, MaxBatch)
    /\ mOut = <<>> /\ retries = IdleRetries /\ lastfm = IdleLastfm

\* iterating a non-list value and calling key_fn / k on its elements raises
\* (a mapping and a string yield strings, which have no .get; a number is
\* not iterable)
MergeRaises(loaded) == loaded.type # "list"

\* main (trakt_sync.py): movies_all_norm = yaml_load(MOVIES_YAML), then
\* add_or_update_verbose(movies_all_norm, enriched_movies, movie_key, "MOV")
LoadAndMergeMovies ==
    /\ mKind = "yaml_load" /\ mOut = <<>>
    /\ LET loaded == yaml_load(mL)
       IN  mOut' = IF MergeRaises(loaded)
                   THEN <<[loaded |-> loaded, raised |-> TRUE, records |-> <<>>]>>
                   ELSE <<[loaded |-> loaded, raised |-> FALSE,
                           records |-> add_or_update_verbose(loaded.items, mB,
                                                             "movie_key").records]>>
    /\ UNCHANGED <<remoteVars, fileVars, procVars, ghostVars, mKind, mL, mB, retries, lastfm, posters>>

\* write_month_buckets (lastfm_sync.py): existing = load_yaml(path), then
\* merged = dedupe_merge(existing, items)
LoadAndMergeScrobbles ==
    /\ mKind = "load_yaml" /\ mOut = <<>>
    /\ LET loaded == load_yaml(mL)
       IN  mOut' = IF MergeRaises(loaded)
                   THEN <<[loaded |-> loaded, raised |-> TRUE, records |-> <<>>]>>
                   ELSE <<[loaded |-> loaded, raised |-> FALSE,
                           records |-> dedupe_merge(loaded.items, mB)]>>
    /\ UNCHANGED <<remoteVars, fileVars, procVars, ghostVars, mKind, mL, mB, retries, lastfm, posters>>

NextLoad == LoadAndMergeMovies \/ LoadAndMergeScrobbles

SpecLoad == InitLoad /\ [][NextLoad]_vars

\* ---------------------------------------------------------------------
\* The activity service
\* ---------------------------------------------------------------------
\* the watches the user records, oldest first; the service lists them newest first
Universe1 ==
    <<RawEpisode(<<1>>, 2, [trakt |-> 21], << <<1, 0>> >>),
      RawEpisode(<<2>>, 3, [trakt |-> 22], << <<2, 0>> >>),
      RawMovie(<<3>>, "A", [trakt |-> 11], << <<2, 1>> >>)>>
Universe2 ==
    <<RawMovie(<<4>>, "B", [trakt |-> 12, tmdb |-> TmdbMovieId], << <<1, 1>> >>),
      RawMovie(<<5>>, "A", [trakt |-> 11], << <<2, 0>> >>)>>
\* a history with an event of a type the script does not know and a movie
\* event without its movie payload, between two movies
Universe3 ==
    <<RawMovie(<<6>>, "B", [trakt |-> 12, tmdb |-> TmdbMovieId], << <<1, 0>> >>),
      Dict([id |-> <<7>>, type |-> <<"season">>, action |-> <<"watch">>,
            watched_at |-> << <<1, 1>> >>]),
      Dict([id |-> <<8>>, type |-> <<"movie">>, action |-> <<"watch">>,
            watched_at |-> << <<2, 0>> >>]),
      RawMovie(<<9>>, "A", [trakt |-> 11], << <<2, 1>> >>)>>
Universes == {Universe1, Universe2, Universe3}

Reverse(seq) == [i \in 1..Len(seq) |-> seq[Len(seq) + 1 - i]]

\* the history at or after start_at, newest first
RemoteSince(sa) ==
    LET visible == SubSeq(universe, 1, remoteN)
        Keep(e) == sa = <<>> \/ ~IsoGreater(sa[1], e.watched_at)
    IN  Reverse(SelectSeq(visible, Keep))

\* the answer to GET /sync/history?start_at=sa&page=pg&limit=lim
RemotePage(sa, pg, lim) ==
    LET all == RemoteSince(sa)
        lo  == (pg - 1) * lim + 1
        hi  == IF pg * lim < Len(all) THEN pg * lim ELSE Len(all)
    IN  SubSeq(all, lo, hi)

\* ---------------------------------------------------------------------
\* trakt_sync.py: a run of main
\* ---------------------------------------------------------------------
Init ==
    /\ universe \in Universes
    /\ remoteN \in 0..Len(universe)
    /\ remoteGrew = FALSE
    /\ envStartAt \in {<<>>, << <<1, 0>> >>}
    /\ catalog = {} /\ tmdb_requests = <<>> /\ issued = 0
    /\ moviesFile = <<>> /\ episodesFile = <<>> /\ cursorFile = <<>> /\ tokensFile = <<>>
    /\ tokens = [access |-> 0, refresh |-> 0, session |-> 0]
    /\ pc = "idle" /\ exit = "none" /\ get = IdleGet
    /\ start_at = <<>> /\ page = 0 /\ history = <<>>
    /\ movies_raw = <<>> /\ episodes_raw = <<>>
    /\ legacy_movies = <<>> /\ legacy_eps = <<>>
    /\ runs = 0 /\ pre = EmptyPre /\ lastFetch = NoFetch /\ endedAt = "" /\ clean = TRUE
    /\ mKind = "none" /\ mL = <<>> /\ mB = <<>> /\ mOut = <<>> /\ retries = IdleRetries /\ lastfm = IdleLastfm
    /\ posters = IdlePosters

\* the call trakt_get(path, params) begins; sent lists the requests it makes
BeginGet ==
    [stage |-> "first", sent |-> <<>>, answer |-> "", refreshes |-> 0, saves |-> 0,
     presented |-> <<>>]

\* url and params of the request trakt_get sends at this point of the run
Request ==
    IF pc = "users_me"
    THEN [path |-> "/users/me", params |-> EmptyDict]
    ELSE [path |-> "/sync/history",
          params |-> Dict([limit |-> <<HistoryLimit>>, page |-> <<page>>,
                           start_at |-> start_at])]

\* the answers the activity service may give: 200, 401, another HTTP error,
\* or no answer at all (requests raises a RequestException)
Answers == {"200", "401", "500", "timeout"}

\* the user records the next watch; the remote history grows
Watch ==
    /\ pc \in {"idle", "exit"}
    /\ remoteN < Len(universe)
    /\ remoteN' = remoteN + 1
    /\ remoteGrew' = (remoteGrew \/ runs > 0)
    /\ UNCHANGED <<universe, envStartAt, catalog, tmdb_requests, issued, fileVars, procVars, ghostVars,
                   mergeVars, posters>>

\* the process starts: module level and main up to the call of trakt_get("/users/me").
\* The workflow has rotated the tokens of .trakt_tokens.json into the environment.
StartRun ==
    /\ pc \in {"idle", "exit"}
    /\ runs < MaxRuns
    /\ runs' = runs + 1
    /\ pre' = [movies |-> moviesFile, episodes |-> episodesFile, cursor |-> cursorFile,
               refresh |-> IF tokensFile = <<>> THEN 0 ELSE tokensFile[1].refresh_token,
               issued  |-> issued]
    /\ catalog' \in Catalogs
    /\ tmdb_requests' = <<>>
    /\ tokens' = IF tokensFile = <<>>
                 THEN [access |-> 0, refresh |-> 0, session |-> 0]
                 ELSE [access  |-> tokensFile[1].access_token,
                       refresh |-> tokensFile[1].refresh_token,
                       session |-> tokensFile[1].access_token]
    /\ pc' = "users_me"
    /\ exit' = "none"
    /\ get' = BeginGet
    /\ start_at' = <<>> /\ page' = 0 /\ history' = <<>>
    /\ movies_raw' = <<>> /\ episodes_raw' = <<>>
    /\ legacy_movies' = <<>> /\ legacy_eps' = <<>>
    /\ lastFetch' = NoFetch
    /\ UNCHANGED <<universe, remoteN, remoteGrew, envStartAt, issued, fileVars, endedAt,
                   clean, mergeVars, posters>>

\* trakt_get: r = SESSION.get(url); a 401 leads to the refresh, any other
\* answer to raise_for_status
GetFirst ==
    /\ pc \in {"users_me", "fetch"}
    /\ get.stage = "first"
    /\ \E a \in Answers :
          get' = [get EXCEPT !.sent = Append(@, Request),
                             !.answer = a,
                             !.stage = CASE a = "200" -> "ok"
                                         [] a = "401" -> "refresh"
                                         [] OTHER     -> "http_error"]
    /\ UNCHANGED <<remoteVars, fileVars, tokens, pc, exit, start_at, page, history,
                   movies_raw, episodes_raw, legacy_movies, legacy_eps, ghostVars, mergeVars, posters>>

\* the refresh without the call of save_tokens_file
RefreshOk_unsaved ==
    /\ pc \in {"users_me", "fetch"}
    /\ get.stage = "refresh"
    /\ issued < MaxIssued
    /\ issued' = issued + 1
    /\ tokens' = [access |-> issued + 1, refresh |-> issued + 1, session |-> issued + 1]
    /\ get' = [get EXCEPT !.refreshes = @ + 1, !.stage = "retry",
                          !.presented = Append(@, tokens.refresh)]
    /\ UNCHANGED <<universe, remoteN, remoteGrew, envStartAt, catalog, tmdb_requests,
                   fileVars, pc, exit,
                   start_at, page, history, movies_raw, episodes_raw, legacy_movies,
                   legacy_eps, ghostVars, mergeVars, posters>>

\* the refresh that leaves TRAKT_REFRESH_TOKEN as it was
RefreshOk_stale ==
    /\ pc \in {"users_me", "fetch"}
    /\ get.stage = "refresh"
    /\ issued < MaxIssued
    /\ issued' = issued + 1
    /\ tokens' = [access |-> issued + 1, refresh |-> tokens.refresh, session |-> issued + 1]
    /\ \E written \in BOOLEAN :
          tokensFile' = IF written
                        THEN <<[access_token |-> issued + 1, refresh_token |-> issued + 1]>>
                        ELSE tokensFile
    /\ get' = [get EXCEPT !.refreshes = @ + 1, !.saves = @ + 1, !.stage = "retry",
                          !.presented = Append(@, tokens.refresh)]
    /\ UNCHANGED <<universe, remoteN, remoteGrew, envStartAt, catalog, tmdb_requests,
                   moviesFile,
                   episodesFile, cursorFile, pc, exit, start_at, page, history, movies_raw,
                   episodes_raw, legacy_movies, legacy_eps, ghostVars, mergeVars, posters>>

\* trakt_refresh_tokens returns True: the new pair is put into the session
\* and the globals, and save_tokens_file is called (a failing write is ignored)
RefreshOk ==
    /\ pc \in {"users_me", "fetch"}
    /\ get.stage = "refresh"
    /\ issued < MaxIssued
    /\ issued' = issued + 1
    /\ tokens' = [access |-> issued + 1, refresh |-> issued + 1, session |-> issued + 1]
    /\ \E written \in BOOLEAN :
          tokensFile' = IF written
                        THEN <<[access_token |-> issued + 1, refresh_token |-> issued + 1]>>
                        ELSE tokensFile
    /\ get' = [get EXCEPT !.refreshes = @ + 1, !.saves = @ + 1, !.stage = "retry",
                          !.presented = Append(@, tokens.refresh)]
    /\ UNCHANGED <<universe, remoteN, remoteGrew, envStartAt, catalog, tmdb_requests,
                   moviesFile,
                   episodesFile, cursorFile, pc, exit, start_at, page, history, movies_raw,
                   episodes_raw, legacy_movies, legacy_eps, ghostVars, mergeVars, posters>>

\* trakt_refresh_tokens returns False (exception, non-200 answer or an answer
\* without tokens): trakt_get raises RuntimeError
RefreshFail ==
    /\ pc \in {"users_me", "fetch"}
    /\ get.stage = "refresh"
    /\ get' = [get EXCEPT !.refreshes = @ + 1, !.stage = "refresh_failed",
                          !.presented = Append(@, tokens.refresh)]
    /\ UNCHANGED <<remoteVars, fileVars, tokens, pc, exit, start_at, page, history,
                   movies_raw, episodes_raw, legacy_movies, legacy_eps, ghostVars, mergeVars, posters>>

\* the retry written as a loop: a 401 on the retried request refreshes again
GetRetry_loop ==
    /\ pc \in {"users_me", "fetch"}
    /\ get.stage = "retry"
    /\ \E a \in Answers :
          get' = [get EXCEPT !.sent = Append(@, Request),
                             !.answer = a,
                             !.stage = CASE a = "200" -> "ok"
                                         [] a = "401" -> "refresh"
                                         [] OTHER     -> "http_error"]
    /\ UNCHANGED <<remoteVars, fileVars, tokens, pc, exit, start_at, page, history,
                   movies_raw, episodes_raw, legacy_movies, legacy_eps, ghostVars, mergeVars, posters>>

\* trakt_get: the request is sent again after the refresh; raise_for_status
\* decides on its answer
GetRetry ==
    /\ pc \in {"users_me", "fetch"}
    /\ get.stage = "retry"
    /\ \E a \in Answers :
          get' = [get EXCEPT !.sent = Append(@, Request),
                             !.answer = a,
                             !.stage = IF a = "200" THEN "ok" ELSE "http_error"]
    /\ UNCHANGED <<remoteVars, fileVars, tokens, pc, exit, start_at, page, history,
                   movies_raw, episodes_raw, legacy_movies, legacy_eps, ghostVars, mergeVars, posters>>

GetReturned == get.stage \in {"ok", "http_error", "refresh_failed"}

\* main: the /users/me check ends (its exception is caught and logged), then
\* start_at = determine_start_at() and fetch_trakt_history asks for page 1
UsersMe ==
    /\ pc = "users_me"
    /\ GetReturned
    /\ start_at' = determine_start_at(envStartAt, cursorFile, moviesFile, episodesFile)
    /\ page' = 1
    /\ history' = <<>>
    /\ pc' = "fetch"
    /\ get' = BeginGet
    /\ UNCHANGED <<remoteVars, fileVars, tokens, exit, movies_raw, episodes_raw,
                   legacy_movies, legacy_eps, ghostVars, mergeVars, posters>>

\* the page loop without "if not batch: break"
FetchPage_past_empty ==
    /\ pc = "fetch"
    /\ get.stage = "ok"
    /\ LET batch     == RemotePage(start_at, page, HistoryLimit)
           collected == history \o batch
           finished  == page = HistoryPages
       IN  /\ history' = collected
           /\ IF ~finished
              THEN /\ page' = page + 1
                   /\ get' = BeginGet
                   /\ UNCHANGED <<pc, exit, lastFetch>>
              ELSE /\ lastFetch' = [start_at |-> start_at,
                                    capped   |-> batch # <<>>,
                                    fetched  |-> Len(collected)]
                   /\ get' = IdleGet
                   /\ page' = page
                   /\ IF collected = <<>>
                      THEN pc' = "exit" /\ exit' = "ok"
                      ELSE pc' = "normalize" /\ exit' = exit
    /\ endedAt' = IF pc' = "exit" THEN pc ELSE endedAt
    /\ UNCHANGED <<remoteVars, fileVars, tokens, start_at, movies_raw, episodes_raw,
                   legacy_movies, legacy_eps, runs, pre, clean, mergeVars, posters>>

\* the page loop with "collected" started again after a token refresh
FetchPage_drop ==
    /\ pc = "fetch"
    /\ get.stage = "ok"
    /\ LET batch     == RemotePage(start_at, page, HistoryLimit)
           collected == IF get.refreshes > 0 THEN batch ELSE history \o batch
           finished  == batch = <<>> \/ page = HistoryPages
       IN  /\ history' = collected
           /\ IF ~finished
              THEN /\ page' = page + 1
                   /\ get' = BeginGet
                   /\ UNCHANGED <<pc, exit, lastFetch>>
              ELSE /\ lastFetch' = [start_at |-> start_at,
                                    capped   |-> batch # <<>>,
                                    fetched  |-> Len(collected)]
                   /\ get' = IdleGet
                   /\ page' = page
                   /\ IF collected = <<>>
                      THEN pc' = "exit" /\ exit' = "ok"
                      ELSE pc' = "normalize" /\ exit' = exit
    /\ endedAt' = IF pc' = "exit" THEN pc ELSE endedAt
    /\ UNCHANGED <<remoteVars, fileVars, tokens, start_at, movies_raw, episodes_raw,
                   legacy_movies, legacy_eps, runs, pre, clean, mergeVars, posters>>

\* fetch_trakt_history: a page has arrived; the loop goes on, or it ends on an
\* empty page or after the last allowed page.  main returns when nothing was fetched.
FetchPage ==
    /\ pc = "fetch"
    /\ get.stage = "ok"
    /\ LET batch     == RemotePage(start_at, page, HistoryLimit)
           collected == history \o batch
           finished  == batch = <<>> \/ page = HistoryPages
       IN  /\ history' = collected
           /\ IF ~finished
              THEN /\ page' = page + 1
                   /\ get' = BeginGet
                   /\ UNCHANGED <<pc, exit, lastFetch>>
              ELSE /\ lastFetch' = [start_at |-> start_at,
                                    capped   |-> batch # <<>>,
                                    fetched  |-> Len(collected)]
                   /\ get' = IdleGet
                   /\ page' = page
                   /\ IF collected = <<>>
                      THEN pc' = "exit" /\ exit' = "ok"
                      ELSE pc' = "normalize" /\ exit' = exit
    /\ endedAt' = IF pc' = "exit" THEN pc ELSE endedAt
    /\ UNCHANGED <<remoteVars, fileVars, tokens, start_at, movies_raw, episodes_raw,
                   legacy_movies, legacy_eps, runs, pre, clean, mergeVars, posters>>

\* __main__ with one handler for every exception: status 2
FetchFailed_generic ==
    /\ pc = "fetch"
    /\ get.stage \in {"http_error", "refresh_failed"}
    /\ pc' = "exit"
    /\ exit' = "2"
    /\ endedAt' = pc
    /\ clean' = FALSE
    /\ UNCHANGED <<remoteVars, fileVars, tokens, get, start_at, page, history, movies_raw,
                   episodes_raw, legacy_movies, legacy_eps, runs, pre, lastFetch, mergeVars, posters>>

\* fetch_trakt_history: trakt_get raised; __main__ logs it and exits with
\* status 1 (RuntimeError) or 2 (HTTPError and every other exception)
FetchFailed ==
    /\ pc = "fetch"
    /\ get.stage \in {"http_error", "refresh_failed"}
    /\ pc' = "exit"
    /\ exit' = IF get.stage = "refresh_failed" THEN "1" ELSE "2"
    /\ endedAt' = pc
    /\ clean' = FALSE
    /\ UNCHANGED <<remoteVars, fileVars, tokens, get, start_at, page, history, movies_raw,
                   episodes_raw, legacy_movies, legacy_eps, runs, pre, lastFetch, mergeVars, posters>>

\* the normalized items of one type, in the order of the history
NormalizeAll(hist, type) ==
    LET one(it) == IF type = "movie" THEN normalize_movie_item(it)
                   ELSE normalize_episode_item(it)
        Keep(it) == Opt(it, "type") = <<type>> /\ one(it) # <<>>
        kept == SelectSeq(hist, Keep)
    IN  [i \in 1..Len(kept) |-> one(kept[i])[1]]

\* the normalization with the cursor advanced as soon as the history is known
Normalize_cursor_first ==
    /\ pc = "normalize"
    /\ movies_raw' = NormalizeAll(history, "movie")
    /\ episodes_raw' = NormalizeAll(history, "episode")
    /\ cursorFile' = <<history[1].watched_at>>
    /\ pc' = "enrich"
    /\ UNCHANGED <<remoteVars, moviesFile, episodesFile, tokensFile, tokens, exit, get,
                   start_at, page, history, legacy_movies, legacy_eps, ghostVars, mergeVars, posters>>

\* main: the loop "for it in history"
Normalize ==
    /\ pc = "normalize"
    /\ movies_raw' = NormalizeAll(history, "movie")
    /\ episodes_raw' = NormalizeAll(history, "episode")
    /\ pc' = "enrich"
    /\ UNCHANGED <<remoteVars, fileVars, tokens, exit, get, start_at, page, history,
                   legacy_movies, legacy_eps, ghostVars, mergeVars, posters>>

\* main: the two enrichment loops; they update the items of movies_raw and
\* episodes_raw in place (enriched_movies and enriched_eps hold the same objects)
Enrich ==
    /\ pc = "enrich"
    /\ movies_raw' = MapMovieEnrich(catalog, movies_raw)
    /\ episodes_raw' = MapEpisodeEnrich(catalog, episodes_raw)
    /\ tmdb_requests' = EnrichRequests(catalog, movies_raw, episodes_raw)
    /\ pc' = "merge"
    /\ UNCHANGED <<universe, remoteN, remoteGrew, envStartAt, catalog, issued, fileVars,
                   tokens, exit, get, start_at, page, history, legacy_movies, legacy_eps,
                   ghostVars, mergeVars, posters>>

\* main: both logs are loaded and merged, the merged lists are mapped to the
\* frontend format and sorted.  An AttributeError of the mapping ends the run
\* with status 2.
Merge ==
    /\ pc = "merge"
    /\ LET merged_movies == add_or_update_verbose(yaml_load(ListFile(moviesFile)).items,
                                                  movies_raw, "movie_key").records
           merged_eps    == add_or_update_verbose(yaml_load(ListFile(episodesFile)).items,
                                                  episodes_raw, "episode_key").records
           lm == [i \in 1..Len(merged_movies) |-> movie_to_frontend(merged_movies[i])]
           le == [i \in 1..Len(merged_eps) |-> episode_to_frontend(merged_eps[i])]
       IN  IF \E i \in 1..Len(merged_movies) : movie_to_frontend_raises(merged_movies[i])
           THEN /\ pc' = "exit" /\ exit' = "2"
                /\ UNCHANGED <<legacy_movies, legacy_eps>>
           ELSE /\ legacy_movies' = SortDesc(lm, [i \in 1..Len(lm) |-> MovieSortKey(lm[i])])
                /\ legacy_eps' = SortDesc(le, [i \in 1..Len(le) |-> EpisodeSortKey(le[i])])
                /\ pc' = "write_movies" /\ exit' = exit
    /\ endedAt' = IF pc' = "exit" THEN pc ELSE endedAt
    /\ clean' = (clean /\ pc' # "exit")
    /\ UNCHANGED <<remoteVars, fileVars, tokens, get, start_at, page, history, movies_raw,
                   episodes_raw, runs, pre, lastFetch, mergeVars, posters>>

\* main: yaml_dump(MOVIES_YAML, legacy_movies)
WriteMovies ==
    /\ pc = "write_movies"
    /\ moviesFile' = legacy_movies
    /\ pc' = "write_episodes"
    /\ UNCHANGED <<remoteVars, episodesFile, cursorFile, tokensFile, tokens, exit, get,
                   start_at, page, history, movies_raw, episodes_raw, legacy_movies,
                   legacy_eps, ghostVars, mergeVars, posters>>

\* main: yaml_dump(EPISODES_YAML, legacy_eps)
WriteEpisodes ==
    /\ pc = "write_episodes"
    /\ episodesFile' = legacy_eps
    /\ pc' = "write_cursor"
    /\ UNCHANGED <<remoteVars, moviesFile, cursorFile, tokensFile, tokens, exit, get,
                   start_at, page, history, movies_raw, episodes_raw, legacy_movies,
                   legacy_eps, ghostVars, mergeVars, posters>>

\* newest_ts: the largest watched_on text of movies_raw + episodes_raw
NewestTs(items) ==
    LET mx[n \in 0..Len(items)] ==
            IF n = 0 THEN <<>>
            ELSE LET ts == Opt(items[n], "watched_on")
                 IN  IF ts # <<>> /\ (mx[n - 1] = <<>> \/ IsoGreater(ts[1], mx[n - 1][1]))
                     THEN ts ELSE mx[n - 1]
    IN  mx[Len(items)]

\* the cursor set to the newest watched_on itself
WriteCursor_exact ==
    /\ pc = "write_cursor"
    /\ LET newest_ts == NewestTs(movies_raw \o episodes_raw)
       IN  cursorFile' = IF newest_ts # <<>> THEN newest_ts
                         ELSE cursorFile
    /\ pc' = "exit"
    /\ exit' = "ok"
    /\ endedAt' = pc
    /\ UNCHANGED <<remoteVars, moviesFile, episodesFile, tokensFile, tokens, get, start_at,
                   page, history, movies_raw, episodes_raw, legacy_movies, legacy_eps,
                   runs, pre, lastFetch, clean, mergeVars, posters>>

\* main: the cursor is set to newest watched_on - 1s; the run ends
WriteCursor ==
    /\ pc = "write_cursor"
    /\ LET newest_ts == NewestTs(movies_raw \o episodes_raw)
       IN  cursorFile' = IF newest_ts # <<>> THEN <<MinusOneSecond(newest_ts[1])>>
                         ELSE cursorFile
    /\ pc' = "exit"
    /\ exit' = "ok"
    /\ endedAt' = pc
    /\ UNCHANGED <<remoteVars, moviesFile, episodesFile, tokensFile, tokens, get, start_at,
                   page, history, movies_raw, episodes_raw, legacy_movies, legacy_eps,
                   runs, pre, lastFetch, clean, mergeVars, posters>>

\* the process is killed at some point of the run
Kill ==
    /\ pc \notin {"idle", "exit"}
    /\ pc' = "exit"
    /\ exit' = "killed"
    /\ endedAt' = pc
    /\ clean' = FALSE
    /\ UNCHANGED <<remoteVars, fileVars, tokens, get, start_at, page, history, movies_raw,
                   episodes_raw, legacy_movies, legacy_eps, runs, pre, lastFetch, mergeVars, posters>>

Next ==
    \/ Watch \/ StartRun
    \/ GetFirst \/ RefreshOk \/ RefreshFail \/ GetRetry
    \/ UsersMe \/ FetchPage \/ FetchFailed
    \/ Normalize \/ Enrich \/ Merge
    \/ WriteMovies \/ WriteEpisodes \/ WriteCursor
    \/ Kill

Spec == Init /\ [][Next]_vars

\* ---------------------------------------------------------------------
\* enrich_posters.py: lookups
\* A request is its path with the parameters that select the answer; the
\* language is "default" when the request carries no language parameter:
\*   <<"find", imdb_id>>  <<"movie", id, lang>>  <<"tv", id, lang>>
\*   <<"tv/external_ids", id>>  <<"tv/season", id, season, lang>>
\*   <<"tv/season/episode", id, season, number, lang>>
\*   <<"trakt/shows", key>>  (api.trakt.tv, asked by trakt_show_ids)
\* posters.tmdb says which kinds of request fail in this run (down, a set of
\* first components) and how: with a non-200 status ("404") or with a
\* RequestException ("error").
\* ---------------------------------------------------------------------
\* --lang
Lang == "de-DE"

\* the JSON body of a 200 answer
CatalogAnswer(req) ==
    CASE req[1] = "find" ->
            [movie_results |-> <<[id |-> TmdbMovieId]>>, tv_results |-> <<[id |-> TmdbShowId]>>]
      [] req[1] = "movie" ->
            IF req[3] = "default"
            THEN [id |-> req[2], title |-> "A", imdb_id |-> "tt1", runtime |-> 100,
                  poster_path |-> "/p", backdrop_path |-> "/b"]
            ELSE [id |-> req[2], title |-> "A-de", overview |-> "ov"]
      [] req[1] = "tv" ->
            IF req[3] = "default"
            THEN [id |-> req[2], name |-> "X", number_of_episodes |-> 10,
                  episode_run_time |-> <<45>>, poster_path |-> "/sp",
                  backdrop_path |-> "/sb"]
            ELSE [id |-> req[2], name |-> "X-de", poster_path |-> "/sp",
                  backdrop_path |-> "/sb"]
      [] req[1] = "tv/external_ids" -> [imdb_id |-> "tt2", tvdb_id |-> 77]
      [] req[1] = "tv/season" ->
            [episodes |-> <<[episode_number |-> 1], [episode_number |-> 2]>>]
      [] req[1] = "tv/season/episode" ->
            IF req[5] = "default"
            THEN [name |-> "E", runtime |-> 50, still_path |-> "/st"]
            ELSE [name |-> "E-de", runtime |-> 50, still_path |-> "/st"]
      [] req[1] = "trakt/shows" -> [ids |-> [imdb |-> "tt2", tvdb |-> 77]]

\* what the service does with a request: "200", "404" or "error"
AnswerTo(tmdb, req) == IF req[1] \in tmdb.down THEN tmdb.how ELSE "200"

\* the value a cache holds under a key: <<>> is None (or the empty dict)
Cached(st, name, key) ==
    IF <<name, key>> \in DOMAIN st.cache THEN st.cache[<<name, key>>] ELSE <<>>

\* cache[key] = value
Store(cache, name, key, value) ==
    [k \in DOMAIN cache \cup {<<name, key>>} |->
        IF k = <<name, key>> THEN value ELSE cache[k]]

\* "if key not in cache: r = s.get(...); cache[key] = r.json() if
\* r.status_code == 200 else None".  s.get is not guarded: a
\* RequestException leaves the helper and main.
Fetch(st, tmdb, name, key, req) ==
    IF st.raised \/ <<name, key>> \in DOMAIN st.cache
    THEN st
    ELSE LET a == AnswerTo(tmdb, req)
         IN  IF a = "error"
             THEN [st EXCEPT !.requests = Append(@, req), !.raised = TRUE]
             ELSE [st EXCEPT !.requests = Append(@, req),
                             !.cache = Store(@, name, key,
                                             IF a = "200" THEN <<CatalogAnswer(req)>>
                                             ELSE <<>>)]

\* find_by_imdb
find_by_imdb(st, tmdb, imdb_id) ==
    IF imdb_id = <<>> THEN st
    ELSE Fetch(st, tmdb, "find_cache", imdb_id[1], <<"find", imdb_id[1]>>)

\* tv_external_ids
tv_external_ids(st, tmdb, tv_id) ==
    Fetch(st, tmdb, "tv_external_ids_cache", tv_id, <<"tv/external_ids", tv_id>>)

\* key = ("id", trakt_id) if trakt_id else ("slug", slug)
TraktShowKey(trakt_id, slug) ==
    IF trakt_id # <<>> THEN <<"id", trakt_id>> ELSE <<"slug", slug>>

\* trakt_show_ids with TRAKT_CLIENT_ID set: every failure, exceptions
\* included, is caught and cached as the empty dict
trakt_show_ids(st, tmdb, trakt_id, slug) ==
    LET key == TraktShowKey(trakt_id, slug)
        req == <<"trakt/shows", key>>
    IN  IF st.raised \/ <<"trakt_show_ids_cache", key>> \in DOMAIN st.cache
           \/ (trakt_id = <<>> /\ slug = <<>>)
        THEN st
        ELSE [st EXCEPT !.requests = Append(@, req),
                        !.cache = Store(@, "trakt_show_ids_cache", key,
                                        IF AnswerTo(tmdb, req) = "200"
                                        THEN <<CatalogAnswer(req).ids>> ELSE <<>>)]

\* tv_details_localized, season_details_localized, episode_details_de,
\* episode_details_def
tv_details_localized(st, tmdb, tv_id, lang) ==
    Fetch(st, tmdb, "tv_de_cache", <<tv_id, lang>>, <<"tv", tv_id, lang>>)
season_details_localized(st, tmdb, tv_id, season, lang) ==
    Fetch(st, tmdb, "season_de_cache", <<tv_id, season, lang>>,
          <<"tv/season", tv_id, season, lang>>)
episode_details_de(st, tmdb, tv_id, season, ep, lang) ==
    Fetch(st, tmdb, "episode_cache_de", <<tv_id, season, ep, lang>>,
          <<"tv/season/episode", tv_id, season, ep, lang>>)
episode_details_def(st, tmdb, tv_id, season, ep) ==
    Fetch(st, tmdb, "episode_cache_def", <<tv_id, season, ep>>,
          <<"tv/season/episode", tv_id, season, ep, "default">>)

\* build_url(path, size): f"{base}{size}{path}" if path else None
build_url(path, size) ==
    IF path = <<>> THEN <<>> ELSE << <<"base", size, path[1]>> >>

\* d[k] = v; a key set to None is a key without value
SetKey(d, k, v) ==
    IF v = <<>> THEN [x \in DOMAIN d \ {k} |-> d[x]]
    ELSE [x \in DOMAIN d \cup {k} |-> IF x = k THEN v[1] ELSE d[x]]

\* the dict a cache entry stands for: None and a missing entry read as {}
AsDict(o) == IF o = <<>> THEN EmptyDict ELSE o[1]

\* ---------------------------------------------------------------------
\* enrich_posters.py: the two loops of main
\* st is [cache, requests, raised]: the caches of main (one mapping, keyed
\* by cache name and key), the requests sent so far, and whether a lookup
\* has raised.  show_meta_cache is not stored: its entry is a function of
\* the entries of tv_def_cache, tv_de_cache and tv_external_ids_cache, and
\* those are filled once.
\* ---------------------------------------------------------------------
\* int(round(statistics.mean(run_times))) for a non-empty list of naturals
RECURSIVE SumOf(_)
SumOf(seq) == IF seq = <<>> THEN 0 ELSE seq[1] + SumOf(Tail(seq))
MeanRounded(seq) ==
    LET n == Len(seq)
        q == SumOf(seq) \div n
        r == SumOf(seq) % n
    IN  IF 2 * r < n THEN q
        ELSE IF 2 * r > n THEN q + 1
        ELSE IF q % 2 = 0 THEN q ELSE q + 1

\* "if not d.get(k) and v: d[k] = v" (and "if not d.get(k): d[k] = v")
FillKey(d, k, v) == IF Has(d, k) THEN d ELSE SetKey(d, k, v)

\* "d[k] = v or d.get(k)"
SetOrKeep(d, k, v) == SetKey(d, k, OrElse(v, Opt(d, k)))

\* the id lookup that opens a loop body: the id of the record, else the
\* first hit of find_by_imdb under list_key.  x is [rec, st, tmdb, id].
LookupId(st, tmdb, rec, own, list_key) ==
    LET ask == own = <<>> /\ Has(rec, "imdb")
        st1 == IF ask THEN find_by_imdb(st, tmdb, Opt(rec, "imdb")) ELSE st
        res == IF ask THEN Sub(AsDict(Cached(st1, "find_cache", rec.imdb)), list_key)
               ELSE <<>>
    IN  [rec |-> rec, st |-> st1, tmdb |-> tmdb,
         id  |-> IF own # <<>> THEN own
                 ELSE IF Len(res) > 0 THEN <<res[1].id>> ELSE <<>>]

\* the loop body goes on after the id lookup
Found(x) == x.id # <<>> /\ ~x.st.raised

\* movie_def_cache and movie_de_cache are filled for mid
MovieDetails(x) ==
    [x EXCEPT !.st = Fetch(Fetch(x.st, x.tmdb, "movie_def_cache", x.id[1],
                                 <<"movie", x.id[1], "default">>),
                           x.tmdb, "movie_de_cache", x.id[1], <<"movie", x.id[1], Lang>>)]

\* the assignments to m from j_def and j_de
MovieFields(m, mid, j_def, j_de) ==
    SetOrKeep(
      SetOrKeep(
        FillKey(
          FillKey(
            SetKey(
              SetOrKeep(
                SetOrKeep(SetKey(m, "tmdb", <<[num |-> mid]>>),
                          "poster", build_url(Opt(j_def, "poster_path"), "w500")),
                "backdrop", build_url(Opt(j_def, "backdrop_path"), "w780")),
              "runtime", Opt(j_def, "runtime")),
            "title", Opt(j_def, "title")),
          "imdb", Opt(j_def, "imdb_id")),
        "title_de", Opt(j_de, "title")),
      "overview_de", Opt(j_de, "overview"))

MovieAssign(x) ==
    [x EXCEPT !.rec = MovieFields(x.rec, x.id[1],
                                  AsDict(Cached(x.st, "movie_def_cache", x.id[1])),
                                  AsDict(Cached(x.st, "movie_de_cache", x.id[1])))]

\* a loop body that stops at the id lookup leaves the record as it was
LoopResult(x, y) ==
    IF Found(x) THEN [rec |-> y.rec, st |-> y.st] ELSE [rec |-> x.rec, st |-> x.st]

\* body of the loop "for m in movies": the record after the pass and st
MovieBody(x) == LoopResult(x, IF Found(x) THEN MovieAssign(MovieDetails(x)) ELSE x)

EnrichPosterMovie(st, tmdb, m) ==
    MovieBody(LookupId(st, tmdb, m,
                       IF Has(m, "tmdb") THEN <<m.tmdb.num>> ELSE <<>>, "movie_results"))

\* the entry of show_meta_cache
ShowMeta(tv_def, tv_de, ex_ids) ==
    [show_total_episodes   |-> Opt(tv_def, "number_of_episodes"),
     show_episode_run_time |-> IF Len(Sub(tv_def, "episode_run_time")) > 0
                               THEN <<MeanRounded(Sub(tv_def, "episode_run_time"))>>
                               ELSE <<>>,
     show_title_de         |-> Opt(tv_de, "name"),
     show_poster_url       |-> build_url(OrElse(Opt(tv_def, "poster_path"),
                                                Opt(tv_de, "poster_path")), "w500"),
     show_backdrop_url     |-> build_url(OrElse(Opt(tv_def, "backdrop_path"),
                                                Opt(tv_de, "backdrop_path")), "w780"),
     imdb_id               |-> Opt(ex_ids, "imdb_id"),
     tvdb_id               |-> Opt(ex_ids, "tvdb_id")]

\* tv_details_default after its id lookup, tv_details_localized and
\* tv_external_ids are called for tv_id
ShowDetails(x) ==
    [x EXCEPT !.st = tv_external_ids(
                         tv_details_localized(
                             Fetch(x.st, x.tmdb, "tv_def_cache", x.id[1],
                                   <<"tv", x.id[1], "default">>),
                             x.tmdb, x.id[1], Lang),
                         x.tmdb, x.id[1])]

MetaOf(x) ==
    ShowMeta(AsDict(Cached(x.st, "tv_def_cache", x.id[1])),
             AsDict(Cached(x.st, "tv_de_cache", <<x.id[1], Lang>>)),
             AsDict(Cached(x.st, "tv_external_ids_cache", x.id[1])))

\* e["tmdb"] and the assignments to e from meta, up to the id fallback
ShowFields(e, tid, meta) ==
    FillKey(
      FillKey(
        SetKey(
          SetKey(
            SetKey(SetKey(e, "tmdb", tid),
                   "show_total_episodes", meta.show_total_episodes),
            "show_episode_run_time", meta.show_episode_run_time),
          "show_title_de", meta.show_title_de),
        "imdb", meta.imdb_id),
      "tvdb", meta.tvdb_id)

ShowAssign(x) == [x EXCEPT !.rec = ShowFields(x.rec, x.id, MetaOf(x))]

\* trakt_show_ids(trakt_id=e.get("trakt_show"), slug=e.get("slug")) when
\* imdb or tvdb is still missing
TraktIdsNeeded(e) == ~Has(e, "imdb") \/ ~Has(e, "tvdb")

TraktIdsLookup(x) ==
    IF TraktIdsNeeded(x.rec)
    THEN [x EXCEPT !.st = trakt_show_ids(x.st, x.tmdb, Opt(x.rec, "trakt_show"),
                                         Opt(x.rec, "slug"))]
    ELSE x

TraktIdsFields(e, t_ids) ==
    IF TraktIdsNeeded(e)
    THEN FillKey(FillKey(e, "imdb", Opt(t_ids, "imdb")), "tvdb", Opt(t_ids, "tvdb"))
    ELSE e

TraktIdsAssign(x) ==
    [x EXCEPT !.rec = TraktIdsFields(
                          x.rec,
                          AsDict(Cached(x.st, "trakt_show_ids_cache",
                                        TraktShowKey(Opt(x.rec, "trakt_show"),
                                                     Opt(x.rec, "slug")))))]

\* show_poster and show_backdrop, if missing
ShowImages(x) ==
    [x EXCEPT !.rec = FillKey(FillKey(x.rec, "show_poster", MetaOf(x).show_poster_url),
                              "show_backdrop", MetaOf(x).show_backdrop_url)]

\* season_details_localized and season_total_episodes
SeasonLookup(x) ==
    IF Has(x.rec, "season")
    THEN [x EXCEPT !.st = season_details_localized(x.st, x.tmdb, x.id[1],
                                                   x.rec.season, Lang)]
    ELSE x

SeasonFields(e, s_de) ==
    IF Has(s_de, "episodes") THEN SetKey(e, "season_total_episodes", <<Len(s_de.episodes)>>)
    ELSE e

SeasonAssign(x) ==
    IF Has(x.rec, "season")
    THEN [x EXCEPT !.rec = SeasonFields(
                               x.rec,
                               AsDict(Cached(x.st, "season_de_cache",
                                             <<x.id[1], x.rec.season, Lang>>)))]
    ELSE x

\* episode_details_de, episode_details_def and the episode fields
HasEpisodeNumber(e) == Has(e, "season") /\ Has(e, "episode")

EpisodeLookup(x) ==
    IF HasEpisodeNumber(x.rec)
    THEN [x EXCEPT !.st = episode_details_def(
                              episode_details_de(x.st, x.tmdb, x.id[1], x.rec.season,
                                                 x.rec.episode, Lang),
                              x.tmdb, x.id[1], x.rec.season, x.rec.episode)]
    ELSE x

EpisodeDeFields(e, ed_de, show_run_time) ==
    IF ed_de = <<>> THEN e
    ELSE FillKey(
           SetKey(SetKey(e, "episode_title_de", Opt(ed_de[1], "name")),
                  "episode_runtime",
                  OrElse(Opt(ed_de[1], "runtime"),
                         OrElse(Opt(e, "episode_runtime"), show_run_time))),
           "episode_still", build_url(Opt(ed_de[1], "still_path"), "w300"))

EpisodeFields(e, ed_de, ed_def, show_run_time) ==
    FillKey(EpisodeDeFields(e, ed_de, show_run_time),
            "episode_title", IF ed_def = <<>> THEN <<>> ELSE Opt(ed_def[1], "name"))

EpisodeAssign(x) ==
    IF HasEpisodeNumber(x.rec)
    THEN [x EXCEPT !.rec = EpisodeFields(
                               x.rec,
                               Cached(x.st, "episode_cache_de",
                                      <<x.id[1], x.rec.season, x.rec.episode, Lang>>),
                               Cached(x.st, "episode_cache_def",
                                      <<x.id[1], x.rec.season, x.rec.episode>>),
                               MetaOf(x).show_episode_run_time)]
    ELSE x

\* body of the loop "for e in episodes"
EpisodeBody(x) ==
    LoopResult(x, IF Found(x)
                  THEN EpisodeAssign(EpisodeLookup(SeasonAssign(SeasonLookup(
                           ShowImages(TraktIdsAssign(TraktIdsLookup(
                               ShowAssign(ShowDetails(x)))))))))
                  ELSE x)

EnrichPosterEpisode(st, tmdb, e) ==
    EpisodeBody(LookupId(st, tmdb, e, Opt(e, "tmdb"), "tv_results"))

\* ---------------------------------------------------------------------
\* enrich_posters.py: a run of main over the files a trakt run wrote
\* ---------------------------------------------------------------------
\* records of watched_movies.yml: with a TMDB id, with an IMDb id only, with
\* neither; as written with TMDB down and with TMDB answering; and a record
\* with a TMDB id and no title
PosterMovieRecords ==
    LET written(c, r) == movie_to_frontend(EnrichMovieItem(c, normalize_movie_item(r)[1]))
        B == RawMovie(<<4>>, "B", [trakt |-> 12, tmdb |-> TmdbMovieId], << <<1, 1>> >>)
    IN  {written(c, r) :
            r \in {B, RawMovie(<<6>>, "C", [trakt |-> 13, imdb |-> "tt1"], << <<1, 1>> >>),
                   RawMovie(<<5>>, "A", [trakt |-> 11], << <<2, 0>> >>)},
            c \in Catalogs}
        \cup {SetKey(SetKey(written(NoCatalog, B), "title", <<>>), "title_de", <<>>)}

\* records of watched_episodes.yml: two episodes of one show, and the first
\* of them with an IMDb id only and with no id of the show
PosterEpisodeRecords ==
    LET written(c, n) == episode_to_frontend(EnrichEpisodeItem(c,
                             normalize_episode_item(
                                 RawEpisode(<<n - 1>>, n, [trakt |-> 20 + n],
                                            << <<1, 0>> >>))[1]))
        plain == written(NoCatalog, 2)
    IN  {plain, written(NoCatalog, 3), written(FullCatalog, 2),
         SetKey(SetKey(plain, "tmdb", <<>>), "imdb", <<"tt2">>),
         SetKey(plain, "tmdb", <<>>)}

\* the kinds of request (first component), and the failures of a run: none,
\* every request, or the requests of one kind; as non-200 answers or as
\* RequestExceptions
RequestKinds ==
    {"find", "movie", "tv", "tv/external_ids", "tv/season", "tv/season/episode",
     "trakt/shows"}
Failures ==
    {[down |-> d, how |-> h] :
        d \in {{}, RequestKinds} \cup {{k} : k \in RequestKinds}, h \in {"404", "error"}}

InitPosters ==
    /\ IdleState
    /\ mKind = "none" /\ mL = <<>> /\ mB = <<>> /\ mOut = <<>> /\ retries = IdleRetries /\ lastfm = IdleLastfm
    /\ \E ms \in SeqUpTo(PosterMovieRecords, MaxLog),
          es \in SeqUpTo(PosterEpisodeRecords, MaxLog), t \in Failures :
          /\ Len(ms) + Len(es) <= MaxLog
          /\ posters = [pc |-> "movies", i |-> 1, movies |-> ms, episodes |-> es,
                        loaded |-> [movies |-> ms, episodes |-> es],
                        tmdb |-> t, cache |-> EmptyDict, requests |-> <<>>,
                        out |-> <<>>]

\* the caches and the request log as the loop bodies see them
PosterSt == [cache |-> posters.cache, requests |-> posters.requests, raised |-> FALSE]

\* one pass of "for m in movies"; an exception of a lookup ends the process
PosterMovie ==
    /\ posters.pc = "movies"
    /\ posters.i <= Len(posters.movies)
    /\ LET r == EnrichPosterMovie(PosterSt, posters.tmdb, posters.movies[posters.i])
       IN  posters' =
              IF r.st.raised
              THEN [posters EXCEPT !.pc = "raised", !.cache = r.st.cache,
                                   !.requests = r.st.requests]
              ELSE [posters EXCEPT !.movies[posters.i] = r.rec, !.i = @ + 1,
                                   !.cache = r.st.cache, !.requests = r.st.requests]
    /\ UNCHANGED <<remoteVars, fileVars, procVars, ghostVars, mergeVars>>

\* episodes = load_yaml(Path(args.episodes)) after the movies loop
PosterLoadEpisodes ==
    /\ posters.pc = "movies"
    /\ posters.i > Len(posters.movies)
    /\ posters' = [posters EXCEPT !.pc = "episodes", !.i = 1]
    /\ UNCHANGED <<remoteVars, fileVars, procVars, ghostVars, mergeVars>>

\* one pass of "for e in episodes"
PosterEpisode ==
    /\ posters.pc = "episodes"
    /\ posters.i <= Len(posters.episodes)
    /\ LET r == EnrichPosterEpisode(PosterSt, posters.tmdb, posters.episodes[posters.i])
       IN  posters' =
              IF r.st.raised
              THEN [posters EXCEPT !.pc = "raised", !.cache = r.st.cache,
                                   !.requests = r.st.requests]
              ELSE [posters EXCEPT !.episodes[posters.i] = r.rec, !.i = @ + 1,
                                   !.cache = r.st.cache, !.requests = r.st.requests]
    /\ UNCHANGED <<remoteVars, fileVars, procVars, ghostVars, mergeVars>>

\* dump_yaml of both lists into the output directory
PosterWrite ==
    /\ posters.pc = "episodes"
    /\ posters.i > Len(posters.episodes)
    /\ posters' = [posters EXCEPT !.pc = "done",
                                  !.out = <<[movies |-> posters.movies,
                                             episodes |-> posters.episodes]>>]
    /\ UNCHANGED <<remoteVars, fileVars, procVars, ghostVars, mergeVars>>

NextPosters == PosterMovie \/ PosterLoadEpisodes \/ PosterEpisode \/ PosterWrite

SpecPosters == InitPosters /\ [][NextPosters]_vars

\* ---------------------------------------------------------------------
\* Both enrichments: a behaviour is the runs of trakt_sync.py or a run of
\* enrich_posters.py
\* ---------------------------------------------------------------------
InitArchive == Init \/ InitPosters

\* the steps of a trakt run are taken where enrich_posters.py is not running
NextArchive == (posters.pc = "idle" /\ Next) \/ NextPosters

SpecArchive == InitArchive /\ [][NextArchive]_vars

\* ---------------------------------------------------------------------
\* lastfm_sync.py: the write of a month file
\* ---------------------------------------------------------------------
\* save_yaml: rows_sorted = sorted(rows, key=lambda x: x["played_at_utc"],
\* reverse=True); the file holds rows_sorted
save_yaml(rows) == SortDesc(rows, [i \in 1..Len(rows) |-> rows[i].played_at_utc])

\* a month file is empty or what save_yaml wrote for some scrobbles
MonthFiles == {save_yaml(dedupe_merge(<<>>, b)) : b \in SeqUpTo(MergeScrobbles, MaxLog)}

InitMonth ==
    /\ IdleState
    /\ posters = IdlePosters
    /\ mKind = "write_month_buckets"
    /\ mL \in MonthFiles
    /\ mB \in SeqUpTo(MergeScrobbles, MaxBatch)
    /\ mOut = <<>> /\ retries = IdleRetries /\ lastfm = IdleLastfm

\* write_month_buckets for one bucket: existing = load_yaml(path),
\* merged = dedupe_merge(existing, items), save_yaml(path, merged),
\* total_written += len(items)
WriteMonthBucket ==
    /\ mKind = "write_month_buckets" /\ Len(mOut) < 2
    /\ LET existing == load_yaml(ListFile(MergeBase)).items
           merged   == dedupe_merge(existing, mB)
       IN  mOut' = Append(mOut, [records |-> save_yaml(merged), new_count |-> Len(mB),
                                 upd_count |-> 0])
    /\ UNCHANGED <<remoteVars, fileVars, procVars, ghostVars, mKind, mL, mB, retries, lastfm, posters>>

\* ---------------------------------------------------------------------
\* The logs of both syncs: a behaviour is the runs of trakt_sync.py or the
\* writes of a month file by lastfm_sync.py
\* ---------------------------------------------------------------------
InitLogs == Init \/ InitMonth

NextLogs == (mKind = "none" /\ Next) \/ WriteMonthBucket

SpecLogs == InitLogs /\ [][NextLogs]_vars

\* ---------------------------------------------------------------------
\* lastfm_sync.py: req_with_retries
\* ---------------------------------------------------------------------
MAX_RETRIES == 5

\* RETRY_BACKOFF_BASE ** (attempt - 1) with base 1.5 = 3/2, as a number of
\* 1/2^(MAX_RETRIES - 1) seconds: 3^(attempt-1) * 2^(MAX_RETRIES - attempt)
RECURSIVE Power(_, _)
Power(b, n) == IF n = 0 THEN 1 ELSE b * Power(b, n - 1)
Backoff(attempt) == Power(3, attempt - 1) * Power(2, MAX_RETRIES - attempt)

\* what requests.get may do: answer with a status code, or raise
Responses  == {"200", "429", "500"}
Exceptions == {"Timeout", "ConnectionError"}

\* the except branch with the bound compared by > instead of >=
AfterFailure_gt(attempt) == IF attempt > MAX_RETRIES THEN "raised" ELSE "sleeping"

\* the except branch: re-raise after the last attempt, else wait and go on
AfterFailure(attempt) == IF attempt >= MAX_RETRIES THEN "raised" ELSE "sleeping"

\* fetch_recent calls req_with_retries(params) for a page
InitRetry ==
    /\ IdleState /\ posters = IdlePosters
    /\ mKind = "req_with_retries" /\ mL = <<>> /\ mB = <<>> /\ mOut = <<>>
    /\ lastfm = IdleLastfm
    /\ retries \in {[stage |-> "request", attempt |-> 0, params |-> pg, outcomes |-> <<>>,
                  sleeps |-> <<>>, result |-> ""] : pg \in 1..2}

\* one pass of the loop up to the return, the raise or the sleep: attempt
\* += 1, requests.get, a 429 turned into an HTTPError
ReqAttempt ==
    /\ mKind = "req_with_retries"
    /\ retries.stage = "request"
    /\ \E o \in Responses \cup Exceptions :
          LET attempt == retries.attempt + 1
              failed  == o \in Exceptions \/ o = "429"
              stage   == IF failed THEN AfterFailure(attempt) ELSE "returned"
          IN  retries' = [retries EXCEPT !.attempt  = attempt,
                                 !.outcomes = Append(@, o),
                                 !.stage    = stage,
                                 !.result   = IF stage = "sleeping" THEN "" ELSE o]
    /\ UNCHANGED <<remoteVars, fileVars, procVars, ghostVars, mKind, mL, mB, mOut, lastfm, posters>>

\* time.sleep(RETRY_BACKOFF_BASE ** (attempt - 1)), then the next pass
ReqSleep ==
    /\ mKind = "req_with_retries"
    /\ retries.stage = "sleeping"
    /\ retries' = [retries EXCEPT !.sleeps = Append(@, Backoff(retries.attempt)),
                          !.stage  = "request"]
    /\ UNCHANGED <<remoteVars, fileVars, procVars, ghostVars, mKind, mL, mB, mOut, lastfm, posters>>

NextRetry == ReqAttempt \/ ReqSleep

SpecRetry == InitRetry /\ [][NextRetry]_vars

\* ---------------------------------------------------------------------
\* lastfm_sync.py: the incremental sync
\* A uts is a number of seconds; its ISO text is <<day, second of the day>>.
\* The calendar of the model has months of one day, so that the month of a
\* timestamp (the first seven characters of its text) is its day.
\* ---------------------------------------------------------------------
iso_from_uts(uts) == <<uts \div SecsPerDay, uts % SecsPerDay>>

\* int(datetime.fromisoformat(ts).replace(tzinfo=utc).timestamp())
UtsOfIso(ts) == ts[1] * SecsPerDay + ts[2]

year_month_from_iso(iso_utc) == iso_utc[1]

\* the recent tracks of the account, newest first as the API lists them:
\* two tracks scrobbled in the same second, and a track that is playing
\* now and has no date
LastfmTracks ==
    <<[name |-> "T1", uts |-> <<>>],
      [name |-> "T2", uts |-> <<5>>],
      [name |-> "T1", uts |-> <<4>>],
      [name |-> "T2", uts |-> <<3>>],
      [name |-> "T1", uts |-> <<3>>],
      [name |-> "T1", uts |-> <<2>>]>>

\* the row fetch_recent builds for a track with a date
RowOf(t) == Scrobble(iso_from_uts(t.uts[1]), t.name, <<"Al">>)

\* fetch_recent(user, api_key, from_uts): the rows of the dated tracks at or
\* after from_uts, over all pages, sorted newest first
fetch_recent(from_uts) ==
    LET Wanted(t) == t.uts # <<>> /\ (from_uts = <<>> \/ t.uts[1] >= from_uts[1])
        got  == SelectSeq(LastfmTracks, Wanted)
        rows == [i \in 1..Len(got) |-> RowOf(got[i])]
    IN  SortDesc(rows, [i \in 1..Len(rows) |-> rows[i].played_at_utc])

\* the months of the calendar, and the month file of a month that has none
LastfmMonths == {year_month_from_iso(iso_from_uts(u)) : u \in 0..5}
MissingFile == [doc |-> "missing", items |-> <<>>]

\* newest_uts_from_files: the largest uts of the rows of all month files
newest_uts_from_files(files) ==
    LET lists == {load_yaml(files[m]).items : m \in DOMAIN files}
        seen  == UNION {{UtsOfIso(rows[i].played_at_utc) : i \in 1..Len(rows)} :
                           rows \in lists}
    IN  IF seen = {} THEN <<>> ELSE <<CHOOSE u \in seen : \A v \in seen : v <= u>>

\* bucket_by_month: the buckets in the order of their first item
RECURSIVE bucket_by_month(_)
bucket_by_month(items) ==
    IF items = <<>> THEN <<>>
    ELSE LET ym      == year_month_from_iso(items[1].played_at_utc)
             Same(e) == year_month_from_iso(e.played_at_utc) = ym
             Other(e) == ~Same(e)
         IN  <<[month |-> ym, items |-> SelectSeq(items, Same)]>>
             \o bucket_by_month(SelectSeq(items, Other))

\* one pass of the loop of write_month_buckets
WriteBucket(files, b) ==
    [files EXCEPT ![b.month] =
        ListFile(save_yaml(dedupe_merge(load_yaml(files[b.month]).items, b.items)))]

RECURSIVE WriteBuckets(_, _)
WriteBuckets(files, buckets) ==
    IF buckets = <<>> THEN files
    ELSE WriteBuckets(WriteBucket(files, buckets[1]), Tail(buckets))

\* from_uts = latest + 1 without the + 1
FromUts_same(latest) == latest

\* from_uts = latest + 1
FromUts(latest) == latest + 1

\* the month files before a run: none, an empty one, or what earlier
\* backfills and runs wrote for some of the scrobbles
InitLastfm ==
    /\ IdleState /\ posters = IdlePosters
    /\ mKind = "incremental_since_latest" /\ mL = <<>> /\ mB = <<>> /\ mOut = <<>>
    /\ retries = IdleRetries
    /\ \E stored \in SeqUpTo({RowOf(LastfmTracks[i]) : i \in 2..Len(LastfmTracks)}, MaxLog),
          empty \in BOOLEAN :
          LET none == [m \in LastfmMonths |-> MissingFile]
              old  == IF empty /\ stored = <<>>
                      THEN [none EXCEPT ![1] = ListFile(<<>>)]
                      ELSE WriteBuckets(none, bucket_by_month(stored))
          IN  (empty => stored = <<>>) /\ lastfm = [IdleLastfm EXCEPT !.files = old]

\* incremental_since_latest up to the call of fetch_recent
LastfmStart ==
    /\ mKind = "incremental_since_latest"
    /\ lastfm.pc \in {"idle", "done", "failed"}
    /\ lastfm.runs < MaxRuns
    /\ LET latest == newest_uts_from_files(lastfm.files)
       IN  lastfm' = IF latest = <<>>
                     THEN [lastfm EXCEPT !.pc = "done", !.runs = @ + 1, !.from_uts = <<>>]
                     ELSE [lastfm EXCEPT !.pc = "fetch", !.runs = @ + 1,
                                         !.from_uts = <<FromUts(latest[1])>>]
    /\ UNCHANGED <<remoteVars, fileVars, procVars, ghostVars, mKind, mL, mB, mOut, retries,
                   posters>>

\* fetch_recent returns, or raises (req_with_retries gives up, raise_for_status,
\* an error payload) and the process ends; with items the buckets are built
LastfmFetch ==
    /\ mKind = "incremental_since_latest"
    /\ lastfm.pc = "fetch"
    /\ \E raised \in BOOLEAN :
          LET items == fetch_recent(lastfm.from_uts)
          IN  lastfm' =
                 [lastfm EXCEPT !.requests = Append(@, lastfm.from_uts[1]),
                                !.buckets  = IF raised THEN <<>> ELSE bucket_by_month(items),
                                !.pc       = IF raised THEN "failed"
                                             ELSE IF items = <<>> THEN "done" ELSE "write"]
    /\ UNCHANGED <<remoteVars, fileVars, procVars, ghostVars, mKind, mL, mB, mOut, retries,
                   posters>>

\* write_month_buckets: one pass of its loop
LastfmWrite ==
    /\ mKind = "incremental_since_latest"
    /\ lastfm.pc = "write"
    /\ lastfm' = [lastfm EXCEPT !.files   = WriteBucket(@, lastfm.buckets[1]),
                                !.buckets = Tail(@),
                                !.writes  = @ + 1,
                                !.pc      = IF Len(lastfm.buckets) = 1 THEN "done" ELSE "write"]
    /\ UNCHANGED <<remoteVars, fileVars, procVars, ghostVars, mKind, mL, mB, mOut, retries,
                   posters>>

NextLastfm == LastfmStart \/ LastfmFetch \/ LastfmWrite

SpecLastfm == InitLastfm /\ [][NextLastfm]_vars

\* =====================================================================
\* Properties
\* =====================================================================
\* number of positions of seq that hold x
Count(seq, x) == Cardinality({i \in 1..Len(seq) : seq[i] = x})

\* C3: the merge is append-only: every record of the existing log is still
\* in the merge result with identical content (as often as it was in the
\* log), so a new event with the key of an existing record is discarded
\* rather than written over it; for add_or_update_verbose and dedupe_merge.
C3_AppendOnly ==
    Len(mOut) >= 1 =>
        \A i \in 1..Len(mL) : Count(mOut[1].records, mL[i]) >= Count(mL, mL[i])

\* C4: reconcile is idempotent: merging the batch a second time into the
\* result of the first merge adds no record (same length, new count 0).
C4_Idempotent ==
    Len(mOut) = 2 =>
        /\ Len(mOut[2].records) = Len(mOut[1].records)
        /\ mOut[2].new_count = 0

\* a second merge has run after a first merge that appended something
C4_Witness ==
    /\ mKind = "movie_key"
    /\ Len(mOut) = 2
    /\ mOut[1].new_count > 0
    /\ mOut[1].upd_count > 0

\* ---------------------------------------------------------------------
\* Properties of a trakt run
\* ---------------------------------------------------------------------
\* the run has ended in success
RunOk == pc = "exit" /\ exit = "ok"

\* an event main normalizes: type movie or episode, with its payload
Recognized(it) ==
    \/ Opt(it, "type") = <<"movie">> /\ Has(it, "movie")
    \/ Opt(it, "type") = <<"episode">> /\ Has(it, "episode")

\* record r of a log is a record of the watch raw (same subject, same date)
RecordOf(r, raw) ==
    /\ Recognized(raw)
    /\ Opt(r, "watched_on") = only_date(Opt(raw, "watched_at"))
    /\ IF raw.type = "movie"
       THEN /\ Opt(r, "title") = Opt(raw.movie, "title")
            /\ Opt(r, "year") = Opt(raw.movie, "year")
       ELSE /\ Opt(r, "show") = Opt(raw.show, "title")
            /\ Opt(r, "season") = Opt(raw.episode, "season")
            /\ Opt(r, "episode") = Opt(raw.episode, "number")

\* the log a watch of this type is stored in
LogOf(raw, movies, episodes) == IF raw.type = "movie" THEN movies ELSE episodes

\* number of records the persisted logs hold for the watch raw
Occurrences(raw) ==
    LET log == LogOf(raw, moviesFile, episodesFile)
    IN  Cardinality({i \in 1..Len(log) : RecordOf(log[i], raw)})

\* C1: after any sequence of successful runs against an unchanging remote
\* history, every remote watch action is at most once in the persisted log
\* (the watches of a universe differ in subject or date).
C1_NoDuplicate ==
    (RunOk /\ clean /\ ~remoteGrew) =>
        \A i \in 1..remoteN : Occurrences(universe[i]) <= 1

\* the watch raw was in the logs when the run started
Persisted(raw) ==
    LET log == LogOf(raw, pre.movies, pre.episodes)
    IN  \E i \in 1..Len(log) : RecordOf(log[i], raw)

\* the run fetched one episode watch the log already held and one new watch
C2_Scenario ==
    /\ RunOk
    /\ Len(history) = 2
    /\ \E a, b \in 1..2 :
          /\ a # b
          /\ history[a].type = "episode" /\ Persisted(history[a])
          /\ ~Persisted(history[b])

\* every record of the log before is in the log after, unchanged
Untouched(before, after) ==
    \A i \in 1..Len(before) : Count(after, before[i]) >= Count(before, before[i])

\* C2: when the log holds a record for an episode and the run fetches that
\* watch again together with one new watch, exactly one record is appended
\* and the persisted records have the same fields and values as before.
C2_OneAppended ==
    C2_Scenario =>
        /\ Len(moviesFile) + Len(episodesFile) = Len(pre.movies) + Len(pre.episodes) + 1
        /\ Untouched(pre.movies, moviesFile)
        /\ Untouched(pre.episodes, episodesFile)

\* the remote events at or after the start of the last fetch that it did not fetch
Unfetched ==
    LET all == RemoteSince(lastFetch.start_at)
    IN  {all[i] : i \in (lastFetch.fetched + 1)..Len(all)}

\* C5: no event is lost to the page cap: the cursor written at the end of a
\* run whose fetch stopped at the maximum page count is not past any remote
\* event the run did not fetch.
C5_CapLosesNothing ==
    (RunOk /\ lastFetch.capped /\ cursorFile # <<>>) =>
        \A e \in Unfetched : ~IsoGreater(cursorFile[1], e.watched_at)

\* C6: cursor monotonicity: after a successful run that wrote the cursor, the
\* watermark in the cursor file is greater than or equal to the watermark the
\* run started from (determine_start_at).
C6_CursorMonotone ==
    (RunOk /\ endedAt = "write_cursor" /\ start_at # <<>> /\ cursorFile # <<>>) =>
        ~IsoGreater(start_at[1], cursorFile[1])

\* the positions of a run before its first log write
BeforeWrite == {"users_me", "fetch", "normalize", "enrich", "merge", "write_movies"}

\* the run is, or ended, at a position before its first log write
NothingWrittenYet ==
    \/ pc \in BeforeWrite
    \/ pc = "exit" /\ endedAt \in BeforeWrite

\* C7: while a run has not reached its first log write, and when it failed
\* or was killed before it, the cursor file and both logs are as they were
\* before the run, so the next run determines the same start_at.
C7_FailureBeforeWrite ==
    NothingWrittenYet =>
        /\ moviesFile = pre.movies
        /\ episodesFile = pre.episodes
        /\ cursorFile = pre.cursor
        /\ pc = "exit" =>
              determine_start_at(envStartAt, cursorFile, moviesFile, episodesFile)
                  = determine_start_at(envStartAt, pre.cursor, pre.movies, pre.episodes)

\* a run over a non-empty log failed on the second page, after the first
\* page had been fetched
C7_Witness ==
    /\ pc = "exit" /\ exit \in {"1", "2"}
    /\ endedAt = "fetch" /\ page = 2 /\ history # <<>>
    /\ pre.episodes # <<>> /\ pre.cursor # <<>>

\* C8: a run that is interrupted or fails at any point leaves both logs and
\* the cursor in their pre-run state.
C8_AllOrNothing ==
    (pc = "exit" /\ exit # "ok") =>
        /\ moviesFile = pre.movies
        /\ episodesFile = pre.episodes
        /\ cursorFile = pre.cursor

C10_NoRefreshLoop ==
    /\ get.refreshes <= 1
    /\ Len(get.sent) <= 2
    /\ get.stage = "refresh" => (get.refreshes = 0 /\ Len(get.sent) = 1)
    /\ (Len(get.sent) = 2 /\ get.answer = "401") => get.stage = "http_error"

\* the retried request was answered with 401 again
C10_Witness ==
    /\ Len(get.sent) = 2
    /\ get.refreshes = 1
    /\ get.answer = "401"
    /\ get.stage = "http_error"

\* C11: a failed token refresh is fatal for the run: once trakt_get has
\* raised because the refresh failed, the only step the run takes is to end
\* in failure; it sends no further request and attempts no further refresh.
\* This holds for every request of the run, the /users/me check included.
C11_RefreshFailureFatal ==
    [][(get.stage = "refresh_failed" /\ pc # "exit") =>
          /\ pc' = "exit"
          /\ exit' \in {"1", "2", "killed"}
          /\ get' = get]_vars

\* the answers that are transient failures: a 5xx or 429 status, or no
\* answer at all (timeout, connection error)
TransientAnswers == {"500", "timeout"}

\* C12: a page request that fails transiently is retried before the run is
\* aborted: a run that ended because a page request of fetch_trakt_history
\* got a transient failure had sent that request at least twice with the
\* credentials in use (at least one retry was made).
C12_TransientRetried ==
    (pc = "exit" /\ endedAt = "fetch" /\ exit = "2" /\ get.answer \in TransientAnswers) =>
        Len(get.sent) - get.refreshes >= 2

\* ---------------------------------------------------------------------
\* Properties of the identity keys
\* ---------------------------------------------------------------------
\* the subject of a normalized item: the movie, or the episode of a show
SubjectOf(r) ==
    IF r.type = "movie"
    THEN <<Opt(Sub(r, "ids"), "trakt"), Opt(r, "title"), Opt(r, "year")>>
    ELSE <<Opt(Sub(Sub(r, "ids"), "show"), "trakt"), Opt(r, "show"), Opt(r, "year"),
           Opt(r, "season"), Opt(r, "episode")>>

\* two items are the same watch: same subject (with season and episode) and
\* same watch time
SameWatch(a, b) ==
    /\ SubjectOf(a) = SubjectOf(b)
    /\ Has(a, "watched_on") /\ Has(b, "watched_on")
    /\ a.watched_on = b.watched_on

\* number of records of the log that are the item a or the item b
Survivors(records, a, b) ==
    Cardinality({k \in 1..Len(records) : records[k] = a \/ records[k] = b})

\* C13: dedup correctness: of two events of the fetched batch with the same
\* subject identity, the same watched_at and (for episodes) the same season
\* and episode, at most one is in the log after the merge, also when the two
\* events carry different history ids.
C13_OneSurvives ==
    (mKind \in {"movie_key", "episode_key"} /\ Len(mOut) >= 1) =>
        \A i, j \in 1..Len(mB) :
            (i < j /\ SameWatch(mB[i], mB[j])) =>
                Survivors(mOut[1].records, mB[i], mB[j]) <= 1

\* C14: two watches of the same movie at different watch times never get
\* the same key from movie_key, and the merge keeps both: neither replaces
\* the other, whichever identity fallback is in use.
C14_DistinctTimesDistinctKeys ==
    (mKind = "movie_key" /\ Len(mOut) >= 1) =>
        \A i, j \in 1..Len(mB) :
            (/\ i < j
             /\ SubjectOf(mB[i]) = SubjectOf(mB[j])
             /\ Has(mB[i], "watched_on") /\ Has(mB[j], "watched_on")
             /\ mB[i].watched_on # mB[j].watched_on) =>
                /\ movie_key(mB[i]) # movie_key(mB[j])
                /\ Count(mOut[1].records, mB[i]) >= 1
                /\ Count(mOut[1].records, mB[j]) >= 1

\* ---------------------------------------------------------------------
\* Properties of the enrichment
\* ---------------------------------------------------------------------
\* C15: within one run the catalog is never asked twice for the same
\* (lookup kind, key, language): the requests the run has sent to TMDB are
\* pairwise different, for any number of events sharing a catalog id.
C15_NoRepeatedLookup ==
    \A i, j \in 1..Len(tmdb_requests) :
        i # j => tmdb_requests[i] # tmdb_requests[j]

\* C16: enrichment failure is never fatal: no lookup of enrich_posters that
\* is answered not-found or fails with a transient error ends the run; the
\* run goes on to the remaining events and writes its output.
C16_LookupFailureNotFatal ==
    posters.pc # "raised"

\* the fields of a record that do not come from the catalog
WatchFields == {"title", "year", "show", "season", "episode", "watched_on"}

\* record b has the watch fields of record a, with the same values
SameWatchFields(a, b) == \A k \in WatchFields : Opt(a, k) = Opt(b, k)

\* record b has every watch field that has a value in a, with that value
KeepsWatchFields(a, b) == \A k \in WatchFields : Has(a, k) => Opt(b, k) = Opt(a, k)

\* the positions of a trakt run after its enrichment loops
AfterEnrich == {"merge", "write_movies", "write_episodes", "write_cursor"}

\* C17: enrichment degradation: enrichment changes and removes none of the
\* values the fields title, year, show, season, episode and watched_on of an
\* event have, and when the catalog answers not-found these fields are
\* exactly as before.  After the enrichment loops of trakt_sync.py every
\* item has them as the normalizer gave them; during a run of
\* enrich_posters.py every record has them as loaded (a movie without title
\* gets the title of the catalog when the catalog answers).
C17_WatchFieldsKept ==
    /\ pc \in AfterEnrich =>
          LET nm == NormalizeAll(history, "movie")
              ne == NormalizeAll(history, "episode")
          IN  /\ Len(movies_raw) = Len(nm)
              /\ Len(episodes_raw) = Len(ne)
              /\ \A i \in 1..Len(nm) : SameWatchFields(nm[i], movies_raw[i])
              /\ \A i \in 1..Len(ne) : SameWatchFields(ne[i], episodes_raw[i])
    /\ Len(posters.movies) = Len(posters.loaded.movies)
    /\ Len(posters.episodes) = Len(posters.loaded.episodes)
    /\ \A i \in 1..Len(posters.movies) :
          /\ KeepsWatchFields(posters.loaded.movies[i], posters.movies[i])
          /\ "movie" \in posters.tmdb.down =>
                SameWatchFields(posters.loaded.movies[i], posters.movies[i])
    /\ \A i \in 1..Len(posters.episodes) :
          SameWatchFields(posters.loaded.episodes[i], posters.episodes[i])

\* the enrichment loops of a trakt run have asked the catalog for a movie
\* and an episode and got not-found for every request
C17_Witness ==
    /\ pc = "merge"
    /\ catalog = NoCatalog
    /\ tmdb_requests # <<>>
    /\ movies_raw # <<>>
    /\ episodes_raw # <<>>

\* ---------------------------------------------------------------------
\* Properties of the loaders
\* ---------------------------------------------------------------------
\* C18: malformed persisted state is treated as an empty log: when the log
\* file cannot be parsed or parses to something that is not a list, the
\* loader (yaml_load, load_yaml) yields the empty list and the merge that
\* consumes it does not raise: its result is the merge of the batch into
\* the empty log.
C18_MalformedIsEmpty ==
    (mKind \in {"yaml_load", "load_yaml"} /\ Len(mOut) = 1
        /\ mL.doc \in {"unparseable", "null", "mapping", "string", "number"}) =>
        /\ mOut[1].loaded = PyList(<<>>)
        /\ ~mOut[1].raised
        /\ mOut[1].records =
              IF mKind = "yaml_load"
              THEN add_or_update_verbose(<<>>, mB, "movie_key").records
              ELSE dedupe_merge(<<>>, mB)

\* C19: an event without a watch timestamp is dropped: no item of the
\* normalized batch handed to the merge lacks its watch time, and the merge
\* adds no record without a watch time to the log.
C19_NoTimelessRecord ==
    (mKind \in {"movie_key", "episode_key"} /\ Len(mOut) >= 1) =>
        /\ \A i \in 1..Len(mB) : Has(mB[i], "watched_on")
        /\ \A k \in 1..Len(mOut[1].records) :
               (\A j \in 1..Len(mL) : mL[j] # mOut[1].records[k]) =>
                   Has(mOut[1].records[k], "watched_on")

\* ---------------------------------------------------------------------
\* Properties of a batch with unrecognized events
\* ---------------------------------------------------------------------
RecognizedOf(hist, type) ==
    SelectSeq(hist, LAMBDA it : Recognized(it) /\ Opt(it, "type") = <<type>>)

MixedBatch(hist) ==
    /\ \E i \in 1..Len(hist) : Recognized(hist[i])
    /\ \E i \in 1..Len(hist) : ~Recognized(hist[i])

PastNormalize ==
    \/ pc \in {"enrich", "merge", "write_movies", "write_episodes", "write_cursor"}
    \/ pc = "exit" /\ endedAt \in {"enrich", "merge", "write_movies", "write_episodes",
                                   "write_cursor"}

C20_AllNormalized ==
    (MixedBatch(history) /\ PastNormalize) =>
        /\ Len(movies_raw) = Len(RecognizedOf(history, "movie"))
        /\ Len(episodes_raw) = Len(RecognizedOf(history, "episode"))

C20_RunCompletes ==
    (MixedBatch(history) /\ PastNormalize /\ pc = "exit" /\ exit # "killed") => exit = "ok"

C20_RecognizedMerged ==
    (MixedBatch(history) /\ pc = "exit" /\ exit = "ok") =>
        /\ \A i \in 1..Len(history) :
               (Recognized(history[i]) /\ Opt(history[i], "type") = <<"movie">>) =>
                   \E k \in 1..Len(moviesFile) :
                       moviesFile[k] = movie_to_frontend(
                           EnrichMovieItem(catalog, normalize_movie_item(history[i])[1]))
        /\ Len(moviesFile) <= Len(pre.movies) + Len(RecognizedOf(history, "movie"))
        /\ Len(episodesFile) <= Len(pre.episodes) + Len(RecognizedOf(history, "episode"))

\* C20: an unrecognized event shape is skipped without aborting the batch:
\* when the fetched history mixes movie or episode events with events of
\* another type or without their payload, every recognized event is
\* normalized, the run ends with status ok (unless it is killed), every
\* recognized movie has its record in the log and the unrecognized events
\* add no record.
C20_UnrecognizedSkipped ==
    C20_AllNormalized /\ C20_RunCompletes /\ C20_RecognizedMerged

\* ---------------------------------------------------------------------
\* Properties of the log writes
\* ---------------------------------------------------------------------
\* the list files in the output directory: yaml_dump opens only the path of
\* the log itself, and nothing else in main writes a list file
FilesOnDisk == [movies |-> moviesFile, episodes |-> episodesFile]

NewestFirst(records, at(_)) ==
    \A i \in 1..(Len(records) - 1) : ~TupleGreater(at(records[i + 1]), at(records[i]))

\* the watch date of a record of the trakt logs; a record without one
\* counts as older than every date, as the sort of main has it
WatchDate(r) == <<DateKey(r)>>

\* C22: the persisted logs are ordered newest first by watch date: the
\* movies and the episodes log of trakt main, and a month file after every
\* save_yaml.
C22_NewestFirst ==
    /\ NewestFirst(moviesFile, WatchDate)
    /\ NewestFirst(episodesFile, WatchDate)
    /\ \A k \in 1..Len(mOut) :
           mKind = "write_month_buckets" =>
               NewestFirst(mOut[k].records, LAMBDA r : r.played_at_utc)

\* a second successful run has added a movie of another date to the movies
\* log
C22_Witness ==
    /\ RunOk /\ runs >= 2
    /\ Len(moviesFile) >= 2 /\ Len(moviesFile) > Len(pre.movies)
    /\ moviesFile[1].watched_on # moviesFile[Len(moviesFile)].watched_on

\* ---------------------------------------------------------------------
\* Properties of the credentials
\* ---------------------------------------------------------------------
\* C23: the credential swap is atomic and persisted: a refresh attempt
\* either succeeds, and then the session header, the access token, the
\* refresh token and the credential file all hold the newly issued pair, or
\* fails, and then all four are unchanged.
C23_SwapAtomicAndPersisted ==
    [][(get.stage = "refresh" /\ get'.stage \in {"retry", "refresh_failed"}) =>
          IF get'.stage = "retry"
          THEN /\ tokens' = [access |-> issued', refresh |-> issued', session |-> issued']
               /\ issued' = issued + 1
               /\ tokensFile' = <<[access_token |-> issued', refresh_token |-> issued']>>
          ELSE /\ tokens' = tokens
               /\ tokensFile' = tokensFile]_vars

\* ---------------------------------------------------------------------
\* Properties of the exit status
\* ---------------------------------------------------------------------
\* the run ended because trakt_get raised after a failed token refresh
EndedByRefreshFailure == 
    pc = "exit" /\ exit # "killed" /\ endedAt = "fetch" /\ get.stage = "refresh_failed"

\* the run ended because of an HTTP error or a failed request
EndedByHttpError == 
    pc = "exit" /\ exit # "killed" /\ endedAt = "fetch" /\ get.stage = "http_error"

FirstOfKind(seq, kind) ==
    IF \E i \in 1..Len(seq) : seq[i][1] = kind
    THEN CHOOSE i \in 1..Len(seq) :
             seq[i][1] = kind /\ \A j \in 1..(i - 1) : seq[j][1] # kind
    ELSE 0

\* enrich_movie_by_tmdb_ids for the item m: the direct lookup comes first,
\* the reverse lookup by IMDb id only after a direct lookup without entry,
\* the search only after both, and no entry is reported before every step
\* that has its input was tried
MovieResolutionInOrder(cat, m) ==
    LET ids    == Sub(m, "ids")
        reqs   == MovieItemRequests(cat, m)
        direct == IF Has(ids, "tmdb") THEN tmdb_get(cat, <<"movie", ids.tmdb>>) ELSE <<>>
        find   == FirstOfKind(reqs, "find")
        search == FirstOfKind(reqs, "search/movie")
    IN  /\ Has(ids, "tmdb") => (reqs # <<>> /\ reqs[1] = <<"movie", ids.tmdb>>)
        /\ find > 0 => (direct = <<>> /\ (search = 0 \/ find < search))
        /\ search > 0 => direct = <<>>
        /\ direct # <<>> => Len(reqs) = 1
        /\ enrich_movie_by_tmdb_ids(cat, Opt(ids, "tmdb"), Opt(ids, "imdb"),
                                    Opt(m, "title"), Opt(m, "year")) = <<>> =>
              /\ Has(ids, "imdb") => find > 0
              /\ search > 0

C25_TraktMovies ==
    pc = "enrich" => \A i \in 1..Len(movies_raw) : MovieResolutionInOrder(catalog, movies_raw[i])

\* the movies loop of enrich_posters.py: a record the loop has passed and
\* left without catalog id was looked up by its IMDb id, if it has one, and
\* searched by its title
C25_Posters ==
    posters.pc \in {"movies", "episodes", "done"} =>
        \A k \in 1..Len(posters.movies) :
            (k < posters.i \/ posters.pc # "movies") /\ ~Has(posters.movies[k], "tmdb") =>
                /\ Has(posters.movies[k], "imdb") =>
                      \E n \in 1..Len(posters.requests) :
                          /\ posters.requests[n][1] = "find"
                          /\ posters.requests[n][2] = posters.movies[k].imdb
                /\ FirstOfKind(posters.requests, "search/movie") > 0

\* C25: catalog resolution follows the order direct id, reverse lookup by
\* external id, free-text search: a later step is attempted only when the
\* earlier ones yielded no entry, and resolution gives up only after every
\* step was attempted; in enrich_movie_by_tmdb_ids and in the id resolution
\* of enrich_posters.py.
C25_ResolutionOrder == C25_TraktMovies /\ C25_Posters

\* ---------------------------------------------------------------------
\* Properties of fetch_trakt_history
\* ---------------------------------------------------------------------
\* the first n pages of the history at or after start_at, concatenated
FirstPages(n) ==
    LET all == RemoteSince(start_at)
        len == IF n * HistoryLimit < Len(all) THEN n * HistoryLimit ELSE Len(all)
    IN  SubSeq(all, 1, len)

\* what fetch_trakt_history has collected is what the pages fetched so far
\* hold, whether or not a request was answered with 401 on the way
CollectedAsWithout401 ==
    /\ pc = "fetch" => history = FirstPages(page - 1)
    /\ pc = "normalize" => history = FirstPages(page)

\* the request sent after the refresh is the request that was answered with
\* 401, and the pages collected so far are kept
RetrySamePage ==
    (pc = "fetch" /\ get.stage = "retry" /\ get'.stage \in {"ok", "http_error"}) =>
        /\ Len(get'.sent) = 2
        /\ get'.sent[2] = get.sent[1]
        /\ get'.sent[2].params = Dict([limit |-> <<HistoryLimit>>, page |-> <<page>>,
                                       start_at |-> start_at])
        /\ history' = history /\ page' = page /\ start_at' = start_at

\* within a fetch the page number never goes back and nothing collected is
\* dropped
NoPageAgain ==
    (pc = "fetch" /\ pc' \in {"fetch", "normalize"}) =>
        /\ page' \in {page, page + 1}
        /\ Len(history') >= Len(history)
        /\ SubSeq(history', 1, Len(history)) = history

\* C26: a 401 in the middle of pagination does not disturb the fetched
\* sequence: after the refresh the same page is requested again with the
\* same start_at and limit, the pages collected before are neither dropped
\* nor requested again, and the collected events are those of the pages
\* fetched, as without the 401.
C26_ResumeSamePage ==
    /\ []CollectedAsWithout401
    /\ [][RetrySamePage /\ NoPageAgain]_vars

\* the request for page 2 was answered with 401, the refresh succeeded and
\* the retry was answered, with page 1 collected before
C26_Witness ==
    /\ pc = "fetch" /\ page = 2 /\ history # <<>>
    /\ get.stage = "ok" /\ get.refreshes = 1 /\ Len(get.sent) = 2

\* the steps trakt_get and the page loop still have to take at most, at
\* this point of a fetch: the pages left, and within a page the stages of
\* trakt_get left
StagesLeft ==
    CASE get.stage = "first"   -> 3
      [] get.stage = "refresh" -> 2
      [] get.stage = "retry"   -> 1
      [] OTHER                 -> 0
FetchMeasure == (HistoryPages - page) * 4 + StagesLeft

\* the pages are requested in increasing order, at most HistoryPages of
\* them, and no page is requested after an empty one
PagesInOrder ==
    pc = "fetch" =>
        /\ page \in 1..HistoryPages
        /\ get.stage \notin {"idle"}
        /\ \A n \in 1..(page - 1) : RemotePage(start_at, n, HistoryLimit) # <<>>
        /\ \A i \in 1..Len(get.sent) : get.sent[i].params.page = page

\* the result is the concatenation of the non-empty pages received, in the
\* order of the requests, and the loop has stopped on an empty page or
\* after the last allowed page
FetchResult ==
    pc = "normalize" =>
        /\ history = FirstPages(page)
        /\ \A n \in 1..(page - 1) : RemotePage(start_at, n, HistoryLimit) # <<>>
        /\ RemotePage(start_at, page, HistoryLimit) = <<>> \/ page = HistoryPages

\* the loop that has stopped on an empty first page returns the empty list
EmptyFetch == pc = "exit" /\ endedAt = "fetch" /\ exit = "ok"
EmptyResult ==
    (pc = "fetch" /\ EmptyFetch') =>
        /\ page' = 1 /\ history' = <<>>
        /\ RemotePage(start_at, 1, HistoryLimit) = <<>>

\* every step of a fetch that stays in the fetch lowers the measure, and
\* the loop goes on to the next page only after a non-empty page
FetchStep ==
    (pc = "fetch" /\ pc' = "fetch") =>
        /\ FetchMeasure' < FetchMeasure
        /\ FetchMeasure' >= 0
        /\ page' # page =>
              (page' = page + 1 /\ RemotePage(start_at, page, HistoryLimit) # <<>>
               /\ history' = history \o RemotePage(start_at, page, HistoryLimit))

\* C27: fetch_trakt_history always terminates: it requests the pages 1, 2,
\* ... in increasing order, stops at the first empty page or after the
\* configured maximum number of pages, never requests a page after an empty
\* one, and returns the concatenation of the non-empty pages in request
\* order.
C27_FetchTerminates ==
    /\ [](PagesInOrder /\ FetchResult)
    /\ [][FetchStep /\ EmptyResult]_vars

\* the history of the account is empty: the first page came back empty
\* before the cap was reached and the loop has stopped there
C27_Witness ==
    /\ EmptyFetch /\ page < HistoryPages
    /\ remoteN = 0 /\ get = IdleGet

\* ---------------------------------------------------------------------
\* Properties of req_with_retries
\* ---------------------------------------------------------------------
\* the outcome of an attempt that makes req_with_retries go on or give up
Failed(o) == o \in Exceptions \/ o = "429"

\* one request per attempt, at most MAX_RETRIES of them, and none after a
\* response that is neither an error nor a 429
RetriesBounded ==
    /\ retries.attempt <= MAX_RETRIES
    /\ Len(retries.outcomes) = retries.attempt
    /\ \A i \in 1..(retries.attempt - 1) : Failed(retries.outcomes[i])

\* the call returns exactly when an attempt has not failed, and it returns
\* the response of that attempt
ReturnsFirstGood ==
    /\ retries.stage = "returned" =>
          /\ ~Failed(retries.outcomes[retries.attempt])
          /\ retries.result = retries.outcomes[retries.attempt]
    /\ (retries.attempt > 0 /\ ~Failed(retries.outcomes[retries.attempt])) =>
          retries.stage = "returned"

\* the call raises exactly when the attempt number MAX_RETRIES has failed, and
\* it raises the error of that attempt
RaisesLast ==
    /\ retries.stage = "raised" =>
          /\ retries.attempt = MAX_RETRIES
          /\ retries.result = retries.outcomes[MAX_RETRIES]
    /\ (retries.attempt = MAX_RETRIES /\ Failed(retries.outcomes[MAX_RETRIES])) =>
          retries.stage = "raised"

\* one wait of 1.5^(k-1) seconds after the failed attempt k, none after the
\* attempt that ended the call
WaitsBetween ==
    /\ \A k \in 1..Len(retries.sleeps) : retries.sleeps[k] = Backoff(k) /\ Backoff(k) > 0
    /\ retries.stage = "request" => Len(retries.sleeps) = retries.attempt
    /\ retries.stage \in {"sleeping", "returned", "raised"} =>
          Len(retries.sleeps) = retries.attempt - 1

\* what is left of the loop: the attempts left, and the wait before the next
RetriesMeasure ==
    2 * (MAX_RETRIES - retries.attempt) + (IF retries.stage = "sleeping" THEN 1 ELSE 0)
RetriesStep ==
    retries' # retries =>
        /\ RetriesMeasure' < RetriesMeasure /\ RetriesMeasure' >= 0
        /\ retries.stage \notin {"returned", "raised"}
        /\ retries'.params = retries.params

\* C28: req_with_retries is bounded: for every sequence of outcomes of the
\* underlying request it sends at most MAX_RETRIES (5) requests, returns the
\* first response that is not a raised error and not a 429, waits between
\* two consecutive attempts and never after the last one, and raises the
\* last error once the fifth attempt has failed.
C28_RetriesBounded ==
    /\ [](mKind = "req_with_retries" =>
            RetriesBounded /\ ReturnsFirstGood /\ RaisesLast /\ WaitsBetween)
    /\ [][mKind = "req_with_retries" => RetriesStep]_vars

\* the fifth attempt has failed after rate limits and raised errors, four
\* waits were made, and the call has raised
C28_Witness ==
    /\ mKind = "req_with_retries"
    /\ retries.stage = "raised" /\ retries.attempt = MAX_RETRIES
    /\ Len(retries.sleeps) = MAX_RETRIES - 1
    /\ retries.outcomes[1] = "429" /\ retries.outcomes[2] = "Timeout"
    /\ retries.result = "429"

\* ---------------------------------------------------------------------
\* Properties of the cursor
\* ---------------------------------------------------------------------
\* the events the run has ingested
Ingested == movies_raw \o episodes_raw

\* t is the newest watch timestamp of the ingested events
NewestWatch(t) ==
    /\ \E i \in 1..Len(Ingested) : Opt(Ingested[i], "watched_on") = <<t>>
    /\ \A i \in 1..Len(Ingested) :
          LET ts == Opt(Ingested[i], "watched_on")
          IN  ts = <<>> \/ ~IsoGreater(ts[1], t)

\* the watch timestamps of the ingested events
WatchTimes ==
    {ts[1] : ts \in {Opt(Ingested[i], "watched_on") : i \in 1..Len(Ingested)} \ {<<>>}}

\* t one second earlier, across midnight
SecondBefore(t) ==
    IF t[2] > 0 THEN <<t[1], t[2] - 1>> ELSE <<t[1] - 1, SecsPerDay - 1>>

\* the run has written both logs and the cursor and has ended in success
RunWrote == RunOk /\ endedAt = "write_cursor"

\* after a successful run that ingested a timed event, the cursor is the
\* newest watch timestamp minus one second
CursorFromNewest ==
    RunWrote => \A t \in WatchTimes : NewestWatch(t) => cursorFile = <<SecondBefore(t)>>

\* the cursor is written by the last step of a run, which ends it in
\* success, after both logs were written with the merged lists; the step
\* writes no log
CursorLast ==
    cursorFile' # cursorFile =>
        /\ pc = "write_cursor" /\ pc' = "exit" /\ exit' = "ok"
        /\ moviesFile = legacy_movies /\ episodesFile = legacy_eps
        /\ moviesFile' = moviesFile /\ episodesFile' = episodesFile

\* the logs are written before the cursor, the movies first
LogsBeforeCursor ==
    /\ moviesFile' # moviesFile =>
          pc = "write_movies" /\ pc' = "write_episodes" /\ cursorFile' = cursorFile
    /\ episodesFile' # episodesFile =>
          pc = "write_episodes" /\ pc' = "write_cursor" /\ cursorFile' = cursorFile
    /\ (pc = "write_cursor" /\ pc' # pc) => pc' = "exit"

\* a fetch that returns no events ends the run with the cursor and the logs
\* as they were
EmptyFetchWritesNothing ==
    /\ (pc = "fetch" /\ EmptyFetch') =>
          cursorFile' = cursorFile /\ moviesFile' = moviesFile /\ episodesFile' = episodesFile
    /\ (pc' = "normalize" /\ pc # "normalize") => history' # <<>>

\* between the start and the end of a run that did not reach the cursor
\* write, the cursor is the one the run found
CursorOnlyOnSuccess ==
    (runs > 0 /\ ~RunWrote) => cursorFile = pre.cursor

\* the files of an empty fetch are the ones the run found
EmptyFetchKeepsFiles ==
    EmptyFetch =>
        /\ cursorFile = pre.cursor
        /\ moviesFile = pre.movies /\ episodesFile = pre.episodes

\* C29: the cursor is written at run end only on success and only from
\* observed events: after a successful run that ingested at least one event
\* with a watch timestamp, the cursor equals the newest watched_at of the
\* batch minus one second; a run whose fetch returns no events writes
\* neither the cursor nor any log; and in every run the cursor write comes
\* after both log writes.
C29_CursorOnSuccess ==
    /\ [](CursorFromNewest /\ CursorOnlyOnSuccess /\ EmptyFetchKeepsFiles)
    /\ [][CursorLast /\ LogsBeforeCursor /\ EmptyFetchWritesNothing]_vars

\* a second run has ended in success after ingesting a movie and an episode,
\* and has moved the cursor
C29_Witness ==
    /\ RunWrote /\ runs >= 2
    /\ movies_raw # <<>> /\ episodes_raw # <<>>
    /\ pre.cursor # <<>> /\ cursorFile # pre.cursor
    /\ \E t \in WatchTimes : NewestWatch(t) /\ cursorFile = <<SecondBefore(t)>>

\* ---------------------------------------------------------------------
\* Properties of both enrichments: what was there stays
\* ---------------------------------------------------------------------
\* every field populated in a record of before is populated in the record
\* at the same position of after
StillPopulated(before, after) ==
    /\ Len(after) = Len(before)
    /\ \A i \in 1..Len(before) : \A k \in DOMAIN before[i] : Has(after[i], k)

\* the enrichment step of trakt_sync.py
TraktAdditive ==
    (pc = "enrich" /\ pc' = "merge") =>
        /\ StillPopulated(movies_raw, movies_raw')
        /\ StillPopulated(episodes_raw, episodes_raw')

\* the passes of the movies and episodes loops of enrich_posters.py
PostersAdditive ==
    /\ StillPopulated(posters.movies, posters'.movies)
    /\ StillPopulated(posters.episodes, posters'.episodes)

\* C30: enrichment is additive: for every record and every outcome of the
\* catalog lookups (data, not-found, partial data), a field that was
\* populated on the record before enrichment is still populated after it,
\* in the enrichment step of trakt_sync and for every field assigned in the
\* movies and episodes loops of enrich_posters.
C30_Additive == [][TraktAdditive /\ PostersAdditive]_vars

\* ---------------------------------------------------------------------
\* Properties of the merge functions: identity keys
\* ---------------------------------------------------------------------
\* the identity key the merge function at hand gives a record
MergeKey(r) == IF mKind = "dedupe_merge" THEN ScrobbleKey(r) ELSE CallKey(mKind, r)

\* no two records of the log share an identity key
UniqueKeys(log) ==
    \A i, j \in 1..Len(log) : MergeKey(log[i]) = MergeKey(log[j]) => i = j

\* the log the n-th merge started from
MergeInput(n) == IF n = 1 THEN mL ELSE mOut[n - 1].records

\* C31: within-batch duplicates are collapsed and key uniqueness is
\* preserved: if no two records of the existing log share an identity key,
\* then after the merge no two records of the result share an identity key,
\* for every batch of new events, including batches that hold the same event
\* several times; for add_or_update_verbose and dedupe_merge.
C31_KeysStayUnique ==
    mKind \in {"movie_key", "episode_key", "dedupe_merge"} =>
        \A n \in 1..Len(mOut) :
            UniqueKeys(MergeInput(n)) => UniqueKeys(mOut[n].records)

\* a batch that holds one new event twice was merged into a log of two
\* records with different keys, and the event was appended once
C31_Witness ==
    /\ mKind = "movie_key"
    /\ Len(mL) = 2 /\ UniqueKeys(mL)
    /\ Len(mB) = 2 /\ mB[1] = mB[2]
    /\ Len(mOut) >= 1
    /\ Len(mOut[1].records) = 3 /\ mOut[1].new_count = 1 /\ mOut[1].upd_count = 1

\* ---------------------------------------------------------------------
\* Properties of a run over the logs of earlier runs
\* ---------------------------------------------------------------------
\* the run has fetched at least one event and has not ended
HasFetched ==
    /\ pc \in {"normalize", "enrich", "merge", "write_movies", "write_episodes",
               "write_cursor"}
    /\ history # <<>>

\* every earlier run ended in success and left a log the run has found
OverOwnOutput ==
    /\ runs >= 2 /\ clean
    /\ pre.movies \o pre.episodes # <<>>

\* a run over the output of successful runs that has fetched something ends
\* only in success (or by being killed)
EndsInSuccess ==
    (OverOwnOutput /\ HasFetched /\ pc' = "exit") => exit' \in {"ok", "killed"}

\* C32: the sync makes progress over its own output: a trakt run that
\* fetches at least one event and starts from logs written by a previous
\* successful run (records in frontend format, including movie records whose
\* tmdb field is a number) reaches the log writes and the cursor write
\* rather than aborting during the merge or the re-mapping through
\* movie_to_frontend / episode_to_frontend.
C32_ProgressOverOwnOutput == [][EndsInSuccess]_vars

\* ---------------------------------------------------------------------
\* Properties of the refresh token
\* ---------------------------------------------------------------------
\* a run is going on
InRun == pc \notin {"idle", "exit"}

\* the refresh token of the latest successful refresh of the run, or the one
\* the run started with if none has succeeded yet
LatestRefreshToken == IF issued > pre.issued THEN issued ELSE pre.refresh

\* the process holds the latest refresh token
HoldsLatest == InRun => tokens.refresh = LatestRefreshToken

\* a call of the token endpoint presents the latest refresh token, whether
\* the endpoint then issues a new pair or not
PresentsLatest ==
    (get.stage = "refresh" /\ get'.stage \in {"retry", "refresh_failed"}) =>
        /\ Len(get'.presented) = Len(get.presented) + 1
        /\ get'.presented[Len(get'.presented)] = LatestRefreshToken
        /\ issued' > issued => get'.presented[Len(get'.presented)] # issued'

\* a token pair is issued only to a call of the token endpoint of a run
IssuedToRefresh ==
    issued' # issued => (InRun /\ get.stage = "refresh" /\ get'.stage = "retry")

\* C33: a refresh always presents the most recently issued refresh token:
\* across any sequence of 401 answers and refreshes within one run, the
\* refresh_token sent to the token endpoint is the one returned by the
\* latest successful refresh (or the initial one if none succeeded yet),
\* never a token that an earlier successful refresh already replaced.
C33_PresentsLatestToken ==
    /\ []HoldsLatest
    /\ [][PresentsLatest /\ IssuedToRefresh]_vars

\* the second successful refresh of a run has presented the token issued by
\* the first one
C33_Witness ==
    /\ pc = "fetch" /\ get.stage = "retry"
    /\ issued = pre.issued + 2
    /\ get.presented = <<pre.issued + 1>>
    /\ pre.refresh # pre.issued + 1

\* ---------------------------------------------------------------------
\* Properties of the lastfm incremental sync
\* ---------------------------------------------------------------------
\* the rows of the month files f
StoredIn(f) ==
    UNION {{f[m].items[i] : i \in 1..Len(f[m].items)} : m \in DOMAIN f}

\* the timestamps of the rows of f, in seconds
StoredUts(f) == {r.played_at_utc[1] * SecsPerDay + r.played_at_utc[2] : r \in StoredIn(f)}

\* a request asks for the scrobbles from the second after the newest stored
\* one, and what the run then holds for writing is strictly newer than every
\* stored scrobble
AsksStrictlyNewer ==
    lastfm'.requests # lastfm.requests =>
        /\ StoredUts(lastfm.files) # {}
        /\ Len(lastfm'.requests) = Len(lastfm.requests) + 1
        /\ \A u \in StoredUts(lastfm.files) : u < lastfm'.requests[Len(lastfm'.requests)]
        /\ \E u \in StoredUts(lastfm.files) :
              lastfm'.requests[Len(lastfm'.requests)] = u + 1
        /\ \A n \in 1..Len(lastfm'.buckets) : \A i \in 1..Len(lastfm'.buckets[n].items) :
              \A u \in StoredUts(lastfm.files) :
                  u < UtsOfIso(lastfm'.buckets[n].items[i].played_at_utc)

\* a run that finds no record in any month file ends without a fetch and
\* without a write
NothingWithoutRecords ==
    (lastfm'.runs # lastfm.runs /\ StoredIn(lastfm.files) = {}) =>
        /\ lastfm'.pc = "done"
        /\ lastfm'.requests = lastfm.requests
        /\ lastfm'.files = lastfm.files /\ lastfm'.writes = lastfm.writes

\* the stored scrobbles only grow, and only a pass of write_month_buckets
\* changes a month file
StoredGrows ==
    /\ StoredIn(lastfm.files) \subseteq StoredIn(lastfm'.files)
    /\ lastfm'.files # lastfm.files => lastfm.pc = "write"

\* no month file holds a scrobble twice, and every file holds the scrobbles
\* of its month
StoredOnce ==
    \A m \in DOMAIN lastfm.files :
        \A i, j \in 1..Len(lastfm.files[m].items) :
            /\ lastfm.files[m].items[i] = lastfm.files[m].items[j] => i = j
            /\ year_month_from_iso(lastfm.files[m].items[i].played_at_utc) = m

\* nothing was fetched or written while no month file held a record
IdleWithoutRecords ==
    StoredIn(lastfm.files) = {} => lastfm.requests = <<>> /\ lastfm.writes = 0

\* C34: the lastfm incremental sync only asks for scrobbles strictly newer
\* than the newest persisted one (from = newest persisted timestamp + 1)
\* and, when no month file holds any record, performs no fetch and no
\* write; after any sequence of incremental runs against an unchanging
\* remote, no scrobble is stored twice in a month file and the set of stored
\* scrobbles only grows.
C34_IncrementalSync ==
    /\ [](mKind = "incremental_since_latest" => StoredOnce /\ IdleWithoutRecords)
    /\ [][mKind = "incremental_since_latest" =>
             AsksStrictlyNewer /\ NothingWithoutRecords /\ StoredGrows]_vars

\* a first run has written the newer scrobbles into two month files, one of
\* which existed, and a second run has asked for the second after the newest
\* of them and has found nothing
C34_Witness ==
    /\ mKind = "incremental_since_latest"
    /\ lastfm.pc = "done" /\ lastfm.runs = 2
    /\ lastfm.writes = 2
    /\ Len(lastfm.requests) = 2 /\ lastfm.requests[1] < lastfm.requests[2]
    /\ lastfm.requests[2] = 6
    /\ Len(lastfm.files[1].items) >= 2

====
